---- MODULE Spec2Model ----
(***************************************************************************)
(* Workflow tracking API of the monitoring stack (monitoring/api/app.py):  *)
(* the workflow store (study_workflows, pending_jobs), the /track/*        *)
(* handlers, the job poller, the Mercure enricher, the /funnel aggregate   *)
(* and the /workflows/sync recovery, as one state machine.                 *)
(*                                                                         *)
(* Conventions.  A nullable SQL column or JSON field holds NULL (<<>>) or  *)
(* Some(v) (<<v>>).  A table is a function whose domain is the set of keys *)
(* of its rows.  A Flask handler is one action (one short transaction);    *)
(* the two background loops are split at the points where other requests   *)
(* can interleave.  Timestamps are values of the logical clock `now`.      *)
(***************************************************************************)
EXTENDS Integers, Sequences, FiniteSets, TLC

VARIABLES
    study_workflows,  \* table study_workflows: study_id -> row
    pending_jobs,     \* table pending_jobs: job_id -> row
    now,              \* the clock NOW() reads
    bk_series,        \* Bookkeeper table dicom_series (external, read-only)
    bk_tasks,         \* Bookkeeper table tasks (external, read-only)
    orthanc,          \* studies held by Orthanc: study_id -> StudyInstanceUID
    bk_events,        \* Bookkeeper table task_events of a study's tasks, ORDER BY time ASC
    bk_data,          \* Bookkeeper column tasks.data of a study's tasks, ORDER BY time ASC
    pollPc,           \* poller position: "sleep" | "iter"
    pollBatch,        \* poller: jobs fetched at the start of the cycle, not yet checked
    pollRows,         \* poller transaction: uncommitted row images, study_id -> row
    pollDels,         \* poller transaction: job_ids deleted, not yet committed
    pollResolved,     \* job_ids Orthanc answered Success, Failure or 404 in the current/last cycle
    enrichPc,         \* enricher position: "sleep" | "iter"
    enrichBatch,      \* enricher: (study_id, study_instance_uid) pairs still to do
    call,             \* the operation that led to this state and its arguments
    resp,             \* the response of that operation
    pre,              \* the row that operation found for its study (<<>> if none)
    initialized,      \* module global _initialized
    poller_started,   \* module global _poller_started
    enricher_started, \* module global _enricher_started
    poller_threads,   \* number of threads running poll_pending_jobs
    enricher_threads, \* number of threads running enrich_workflows_from_mercure
    reqPc,            \* position of each request thread in ensure_pollers_running
    syncPc,           \* a /workflows/sync run: "idle" | "check" | "insert"
    syncTodo,         \* sync: the series records of mercure_series still to do
    syncSeen,         \* sync: orthanc_studies, StudyInstanceUID -> study_id
    syncRows,         \* sync transaction: rows inserted, not yet committed
    syncCount         \* sync: synced_count

vars == <<study_workflows, pending_jobs, now, bk_series, bk_tasks, orthanc, bk_events, bk_data,
          pollPc, pollBatch, pollRows, pollDels, pollResolved,
          enrichPc, enrichBatch, call, resp, pre,
          initialized, poller_started, enricher_started, poller_threads, enricher_threads, reqPc,
          syncPc, syncTodo, syncSeen, syncRows, syncCount>>

storeVars == <<study_workflows, pending_jobs>>
extVars == <<bk_series, bk_tasks, orthanc, bk_events, bk_data>>
pollVars == <<pollPc, pollBatch, pollRows, pollDels, pollResolved>>
enrichVars == <<enrichPc, enrichBatch>>
startVars == <<initialized, poller_started, enricher_started, poller_threads, enricher_threads, reqPc>>
syncVars == <<syncPc, syncTodo, syncSeen, syncRows, syncCount>>

----------------------------------------------------------------------------
(* Bounds of the model *)

MaxTime == 1
StudyIds == {"S1", "S2"}
JobIds == {"J1", "J2"}
Uids == {"U1", "U2"}
Names == {"P1", "P2"}
Descriptions == {"D1", "D2"}
SeriesIds == {"X1", "X2"}

----------------------------------------------------------------------------
(* SQL NULL / Python None, and COALESCE *)

NULL == <<>>
Some(v) == <<v>>
Val(o) == o[1]
Opt(S) == {NULL} \cup {Some(v) : v \in S}

COALESCE(a, b) == IF a # NULL THEN a ELSE b

Min(S) == CHOOSE m \in S : \A t \in S : m <= t
Max(S) == CHOOSE m \in S : \A t \in S : m >= t

(* A table as a function on its keys *)
Put(table, key, row) ==
    [k \in DOMAIN table \cup {key} |-> IF k = key THEN row ELSE table[k]]
Drop(table, keys) == [k \in DOMAIN table \ keys |-> table[k]]
EmptyTable == [k \in {} |-> NULL]

\* no /workflows/sync run is under way
SyncIdle ==
    /\ syncPc = "idle"
    /\ syncTodo = <<>>
    /\ syncSeen = <<>>
    /\ syncRows = EmptyTable
    /\ syncCount = 0
RowOf(table, key) == IF key \in DOMAIN table THEN Some(table[key]) ELSE NULL

----------------------------------------------------------------------------
(* study_workflows rows (init_db) *)

Stages == {"mercure", "lpch", "lpcht", "modlink"}
DestStages == {"lpch", "lpcht", "modlink"}

\* row as INSERT leaves it when only the four identity columns are given:
\* every other column NULL, ai_results_received DEFAULT FALSE, created_at and
\* updated_at DEFAULT NOW()
NewRow(uid, patient, description, t) ==
    [ study_instance_uid |-> uid,
      patient_name |-> patient,
      study_description |-> description,
      mercure_sent_at |-> NULL, mercure_send_success |-> NULL, mercure_send_error |-> NULL,
      mercure_received_at |-> NULL,
      mercure_processing_started_at |-> NULL,
      mercure_processing_completed_at |-> NULL,
      ai_results_received_at |-> NULL,
      ai_results_received |-> FALSE,
      lpch_sent_at |-> NULL, lpch_send_success |-> NULL, lpch_send_error |-> NULL,
      lpcht_sent_at |-> NULL, lpcht_send_success |-> NULL, lpcht_send_error |-> NULL,
      modlink_sent_at |-> NULL, modlink_send_success |-> NULL, modlink_send_error |-> NULL,
      created_at |-> Some(t),
      updated_at |-> Some(t) ]

SentAt(row, prefix) == row[prefix \o "_sent_at"]
Success(row, prefix) == row[prefix \o "_send_success"]
Error(row, prefix) == row[prefix \o "_send_error"]

\* SET {prefix}_sent_at = .., {prefix}_send_success = .., {prefix}_send_error = ..,
\*     updated_at = NOW()
SetStage(row, prefix, sent_at, success, error, t) ==
    [row EXCEPT ![prefix \o "_sent_at"] = sent_at,
                ![prefix \o "_send_success"] = success,
                ![prefix \o "_send_error"] = error,
                !.updated_at = Some(t)]

----------------------------------------------------------------------------
(* Requests and responses *)

\* str.upper() on the destination names the model sends
Upper(name) ==
    CASE name = "mercure" -> "MERCURE"
      [] name = "lpch" -> "LPCH"
      [] name = "lpchrouter" -> "LPCHROUTER"
      [] name = "lpcht" -> "LPCHT"
      [] name = "lpchtrouter" -> "LPCHTROUTER"
      [] name = "modlink" -> "MODLINK"
      [] name = "foo" -> "FOO"
      [] name = "Lpch" -> "LPCH"
      [] name = "LpchRouter" -> "LPCHROUTER"
      [] name = "LpchtRouter" -> "LPCHTROUTER"
      [] name = "ModLink" -> "MODLINK"
      [] name = "Mercure" -> "MERCURE"
      [] OTHER -> name

\* request.json's "success" key as sent: "absent" (no key), "null", "true", "false";
\* data.get('success', default) gives the default only when the key is absent
GetSuccess(raw, default) ==
    CASE raw = "absent" -> Some(default)
      [] raw = "null" -> NULL
      [] raw = "true" -> Some(TRUE)
      [] raw = "false" -> Some(FALSE)

NoCall == [ op |-> "none", study_id |-> NULL, study_instance_uid |-> NULL,
            patient_name |-> NULL, study_description |-> NULL,
            name |-> "", destination |-> "", success |-> NULL, error |-> NULL, error_code |-> NULL, job_id |-> NULL,
            observed |-> NULL, answer |-> "", hours |-> 0, fault |-> "",
            seen |-> <<>>, tracked |-> {}, failing |-> {}, repeat |-> FALSE, same |-> FALSE,
            limit |-> 0 ]

NoResp == [ code |-> 0, deleted |-> 0, synced |-> 0, funnel |-> NULL, workflow |-> NULL,
            processing |-> NULL, listed |-> {} ]
Ok == [NoResp EXCEPT !.code = 200]
BadRequest == [NoResp EXCEPT !.code = 400]

\* a step of the environment: no request was made, nothing was answered
Unobserved == call' = NoCall /\ resp' = NoResp /\ pre' = NULL

\* a writer waits while the poller's open transaction holds the row
RowFree(study_id) == study_id \notin DOMAIN pollRows /\ study_id \notin DOMAIN syncRows
JobFree(job_id) == job_id \notin pollDels

\* rows "WHERE study_id = %s" selects: none when the request gave no study_id
Target(study_id) == IF study_id # NULL /\ Val(study_id) \in DOMAIN study_workflows
                    THEN {Val(study_id)} ELSE {}
PreOf(study_id) == IF study_id = NULL THEN NULL ELSE RowOf(study_workflows, Val(study_id))

----------------------------------------------------------------------------
(* POST /track/start *)

\* other merges: SET x = EXCLUDED.x, and SET x = COALESCE(study_workflows.x, EXCLUDED.x)
StartMergeOverwrite(given, stored) == given
StartMergeKeep(given, stored) == COALESCE(stored, given)

\* ON CONFLICT (study_id) DO UPDATE SET x = COALESCE(EXCLUDED.x, study_workflows.x)
StartMerge(given, stored) == COALESCE(given, stored)

\* an upsert that replaces the stored row by a fresh one
StartRowReplace(old, uid, patient, description, t) == NewRow(uid, patient, description, t)

StartRow(old, uid, patient, description, t) ==
    IF old = NULL
    THEN NewRow(uid, patient, description, t)
    ELSE [Val(old) EXCEPT
            !.patient_name = StartMerge(patient, Val(old).patient_name),
            !.study_description = StartMerge(description, Val(old).study_description),
            !.study_instance_uid = StartMerge(uid, Val(old).study_instance_uid),
            !.updated_at = Some(t)]

TrackStart(study_id, uid, patient, description) ==
    /\ call' = [NoCall EXCEPT !.op = "start", !.study_id = study_id,
                  !.study_instance_uid = uid, !.patient_name = patient,
                  !.study_description = description]
    /\ pre' = PreOf(study_id)
    /\ IF study_id = NULL
       THEN /\ resp' = BadRequest
            /\ UNCHANGED study_workflows
       ELSE /\ RowFree(Val(study_id))
            /\ study_workflows' = Put(study_workflows, Val(study_id),
                   StartRow(RowOf(study_workflows, Val(study_id)), uid, patient, description, now))
            /\ resp' = Ok
    /\ UNCHANGED <<pending_jobs, now, extVars, pollVars, enrichVars, startVars, syncVars>>

----------------------------------------------------------------------------
(* POST /track/mercure-sent, /track/ai-results, /track/destination *)

\* UPDATE study_workflows SET ... WHERE study_id = %s, as one statement
\* (new: the row each key would get)
\* an UPDATE that inserts the row when no row matches
UpdateWhereUpsert(study_id, new) ==
    IF study_id # NULL /\ Val(study_id) \notin DOMAIN study_workflows
    THEN Put(study_workflows, Val(study_id), NewRow(NULL, NULL, NULL, now))
    ELSE [k \in DOMAIN study_workflows |->
            IF k \in Target(study_id) THEN new[k] ELSE study_workflows[k]]

UpdateWhere(study_id, new) ==
    [k \in DOMAIN study_workflows |->
        IF k \in Target(study_id) THEN new[k] ELSE study_workflows[k]]

\* SET mercure_sent_at = NOW(), mercure_send_success = %s, mercure_send_error = %s
MercureSentRow(row, success, error, t) ==
    SetStage(row, "mercure", Some(t), success, error, t)

TrackMercureSent(study_id, rawSuccess, error) ==
    /\ \A k \in Target(study_id) : RowFree(k)
    /\ call' = [NoCall EXCEPT !.op = "mercure_sent", !.study_id = study_id,
                  !.success = GetSuccess(rawSuccess, FALSE), !.error = error]
    /\ pre' = PreOf(study_id)
    /\ LET new == [k \in DOMAIN study_workflows |->
                     MercureSentRow(study_workflows[k], GetSuccess(rawSuccess, FALSE), error, now)]
       IN study_workflows' = UpdateWhere(study_id, new)
    /\ resp' = Ok
    /\ UNCHANGED <<pending_jobs, now, extVars, pollVars, enrichVars, startVars, syncVars>>

\* SET ai_results_received_at = NOW(), ai_results_received = TRUE,
\*     mercure_sent_at = COALESCE(mercure_sent_at, NOW()), mercure_send_success = TRUE
\* an update that stamps mercure_sent_at anew
AiResultsRowResent(row, t) ==
    [row EXCEPT !.ai_results_received_at = Some(t),
                !.ai_results_received = TRUE,
                !.mercure_sent_at = Some(t),
                !.mercure_send_success = Some(TRUE),
                !.updated_at = Some(t)]

AiResultsRow(row, t) ==
    [row EXCEPT !.ai_results_received_at = Some(t),
                !.ai_results_received = TRUE,
                !.mercure_sent_at = COALESCE(row.mercure_sent_at, Some(t)),
                !.mercure_send_success = Some(TRUE),
                !.updated_at = Some(t)]

TrackAiResults(study_id) ==
    /\ \A k \in Target(study_id) : RowFree(k)
    /\ call' = [NoCall EXCEPT !.op = "ai_results", !.study_id = study_id]
    /\ pre' = PreOf(study_id)
    /\ LET new == [k \in DOMAIN study_workflows |->
                     AiResultsRow(study_workflows[k], now)]
       IN study_workflows' = UpdateWhere(study_id, new)
    /\ resp' = Ok
    /\ UNCHANGED <<pending_jobs, now, extVars, pollVars, enrichVars, startVars, syncVars>>

\* col_map of track_destination (MERCURE is handled before the map is used)
\* a map that sends LPCHT and LPCHTROUTER to the lpch columns
DestColMapMerged(destination) ==
    CASE destination \in {"LPCHROUTER", "LPCH", "LPCHTROUTER", "LPCHT"} -> Some("lpch")
      [] destination = "MODLINK" -> Some("modlink")
      [] OTHER -> NULL

DestColMap(destination) ==
    CASE destination = "LPCHROUTER" -> Some("lpch")
      [] destination = "LPCH" -> Some("lpch")
      [] destination = "LPCHTROUTER" -> Some("lpcht")
      [] destination = "LPCHT" -> Some("lpcht")
      [] destination = "MODLINK" -> Some("modlink")
      [] OTHER -> NULL

DestPrefix(destination) ==
    IF destination = "MERCURE" THEN Some("mercure") ELSE DestColMap(destination)

\* SET {prefix}_sent_at = NOW(), {prefix}_send_success = %s, {prefix}_send_error = %s
DestinationRow(row, prefix, success, error, t) ==
    SetStage(row, prefix, Some(t), success, error, t)

TrackDestination(study_id, rawDestination, rawSuccess, error) ==
    LET destination == Upper(rawDestination)
        success == GetSuccess(rawSuccess, FALSE)
        prefix == DestPrefix(destination)
    IN /\ call' = [NoCall EXCEPT !.op = "destination", !.study_id = study_id,
                     !.name = rawDestination,
                     !.destination = destination, !.success = success, !.error = error]
       /\ pre' = PreOf(study_id)
       /\ IF prefix = NULL
          THEN /\ resp' = BadRequest
               /\ UNCHANGED study_workflows
          ELSE /\ \A k \in Target(study_id) : RowFree(k)
               /\ LET new == [k \in DOMAIN study_workflows |->
                                DestinationRow(study_workflows[k], Val(prefix), success, error, now)]
                  IN study_workflows' = UpdateWhere(study_id, new)
               /\ resp' = Ok
       /\ UNCHANGED <<pending_jobs, now, extVars, pollVars, enrichVars, startVars, syncVars>>

----------------------------------------------------------------------------
(* POST /track/reset, /track/job *)

JobsOfStudy(jobs, study_id) == {j \in DOMAIN jobs : jobs[j].study_id = study_id}

\* DELETE FROM study_workflows WHERE study_id = %s
ResetWorkflows(table, study_id) == Drop(table, {study_id})

\* a reset that leaves the study's pending jobs in place
ResetJobsKept(jobs, study_id) == jobs

\* DELETE FROM pending_jobs WHERE study_id = %s
ResetJobs(jobs, study_id) == Drop(jobs, JobsOfStudy(jobs, study_id))

\* deleted_count = cur.rowcount, read after the second DELETE: the number of
\* pending_jobs rows that statement removed
ResetCount(jobs, study_id) == Cardinality(JobsOfStudy(jobs, study_id))

TrackReset(study_id) ==
    /\ call' = [NoCall EXCEPT !.op = "reset", !.study_id = study_id]
    /\ pre' = PreOf(study_id)
    /\ IF study_id = NULL
       THEN /\ resp' = BadRequest
            /\ UNCHANGED storeVars
       ELSE /\ RowFree(Val(study_id))
            /\ \A j \in JobsOfStudy(pending_jobs, Val(study_id)) : JobFree(j)
            /\ study_workflows' = ResetWorkflows(study_workflows, Val(study_id))
            /\ pending_jobs' = ResetJobs(pending_jobs, Val(study_id))
            /\ resp' = [Ok EXCEPT !.deleted = ResetCount(pending_jobs, Val(study_id))]
    /\ UNCHANGED <<now, extVars, pollVars, enrichVars, startVars, syncVars>>

\* INSERT INTO pending_jobs ... ON CONFLICT (job_id) DO UPDATE SET study_id, destination,
\* queued_at = NOW()
JobRow(study_id, destination, t) ==
    [study_id |-> study_id, destination |-> destination, queued_at |-> Some(t)]

TrackJob(job_id, study_id, rawDestination) ==
    LET destination == Upper(rawDestination)
    IN /\ call' = [NoCall EXCEPT !.op = "job", !.study_id = study_id,
                     !.name = rawDestination,
                     !.destination = destination, !.job_id = job_id]
       /\ pre' = PreOf(study_id)
       /\ IF job_id = NULL \/ study_id = NULL \/ destination = ""
          THEN /\ resp' = BadRequest
               /\ UNCHANGED pending_jobs
          ELSE /\ JobFree(Val(job_id))
               /\ pending_jobs' = Put(pending_jobs, Val(job_id),
                                      JobRow(Val(study_id), destination, now))
               /\ resp' = Ok
       /\ UNCHANGED <<study_workflows, now, extVars, pollVars, enrichVars, startVars, syncVars>>

----------------------------------------------------------------------------
(* Job poller: poll_pending_jobs, update_workflow_status *)

\* What GET /jobs/{job_id} can give the poller.  kind:
\*   "404"        status 404
\*   "Success", "Failure", "Running", "Pending", "Paused"   the body's State
\*   "Other"      any other State string, or a body without State ('Unknown')
\*   "Error"      requests raises a RequestException (timeout, refused connection)
\*   "Malformed"  a body that is JSON but no object: job_info.get raises
\*                AttributeError, which the per-job except clause does not catch
PollKinds == {"404", "Success", "Failure", "Running", "Pending", "Paused",
              "Other", "Error", "Malformed"}
\* kinds of answer with a transport error counted as final
TerminalKindsWithError == {"404", "Success", "Failure", "Error"}

TerminalKinds == {"404", "Success", "Failure"}

Answer(kind, description, code) ==
    [kind |-> kind, ErrorDescription |-> description, ErrorCode |-> code]

\* job_info.get('ErrorDescription') or job_info.get('ErrorCode') or 'Unknown error'
\* (an empty or missing value is NULL here)
ErrorMsg(answer) ==
    COALESCE(answer.ErrorDescription, COALESCE(answer.ErrorCode, Some("Unknown error")))

\* a col_map without the ROUTER spellings
StatusColMapPlain(destination) ==
    CASE destination = "MERCURE" -> Some("mercure")
      [] destination = "LPCH" -> Some("lpch")
      [] destination = "LPCHT" -> Some("lpcht")
      [] destination = "MODLINK" -> Some("modlink")
      [] OTHER -> NULL

\* col_map of update_workflow_status
StatusColMap(destination) ==
    CASE destination = "MERCURE" -> Some("mercure")
      [] destination = "LPCHROUTER" -> Some("lpch")
      [] destination = "LPCH" -> Some("lpch")
      [] destination = "LPCHTROUTER" -> Some("lpcht")
      [] destination = "LPCHT" -> Some("lpcht")
      [] destination = "MODLINK" -> Some("modlink")
      [] OTHER -> NULL

\* an UPDATE of the outcome that leaves {prefix}_sent_at as it is
StatusRowOutcomeOnly(row, prefix, success, error, t) ==
    SetStage(row, prefix, SentAt(row, prefix), success, error, t)

\* SET {prefix}_sent_at = COALESCE({prefix}_sent_at, NOW()),
\*     {prefix}_send_success = %s, {prefix}_send_error = %s, updated_at = NOW()
StatusRow(row, prefix, success, error, t) ==
    SetStage(row, prefix, COALESCE(SentAt(row, prefix), Some(t)), success, error, t)

\* the row the poller's transaction sees: its own uncommitted image, else the
\* committed row
PollView(study_id) ==
    IF study_id \in DOMAIN pollRows THEN Some(pollRows[study_id])
    ELSE RowOf(study_workflows, study_id)

\* update_workflow_status inside the poller's transaction: the new uncommitted images
UpdateWorkflowStatus(study_id, destination, success, error) ==
    LET prefix == StatusColMap(Upper(destination))
        seen == PollView(study_id)
    IN IF prefix = NULL \/ seen = NULL
       THEN pollRows
       ELSE Put(pollRows, study_id, StatusRow(Val(seen), Val(prefix), success, error, now))

\* a deletion that is not kept with the cycle's transaction
PollDeleteApart(job_id) == pollDels

\* DELETE FROM pending_jobs WHERE job_id = %s inside the poller's transaction
PollDelete(job_id) ==
    IF job_id \in DOMAIN pending_jobs THEN pollDels \cup {job_id} ELSE pollDels

PollCall(op, job, answer) ==
    [NoCall EXCEPT !.op = op, !.study_id = Some(job.study_id),
                   !.destination = job.destination, !.job_id = Some(job.job_id),
                   !.answer = answer.kind, !.error = answer.ErrorDescription,
                   !.error_code = answer.ErrorCode]

\* SELECT job_id, study_id, destination FROM pending_jobs
PollLoad ==
    /\ poller_threads > 0
    /\ pollPc = "sleep"
    /\ pollPc' = "iter"
    /\ pollBatch' = {[job_id |-> j, study_id |-> pending_jobs[j].study_id,
                      destination |-> pending_jobs[j].destination] : j \in DOMAIN pending_jobs}
    /\ pollRows' = EmptyTable
    /\ pollDels' = {}
    /\ pollResolved' = {}
    /\ call' = [NoCall EXCEPT !.op = "poll_load"]
    /\ resp' = NoResp
    /\ pre' = NULL
    /\ UNCHANGED <<storeVars, now, extVars, enrichVars, startVars, syncVars>>

\* one iteration of "for job in pending" whose answer keeps the cycle going
PollJob(job, answer) ==
    /\ pollPc = "iter"
    /\ job \in pollBatch
    /\ answer.kind # "Malformed"
    /\ pollBatch' = pollBatch \ {job}
    /\ pollResolved' = IF answer.kind \in TerminalKinds
                     THEN pollResolved \cup {job.job_id} ELSE pollResolved
    /\ pollRows' =
         CASE answer.kind = "Success" ->
                UpdateWorkflowStatus(job.study_id, job.destination, Some(TRUE), NULL)
           [] answer.kind = "Failure" ->
                UpdateWorkflowStatus(job.study_id, job.destination, Some(FALSE), ErrorMsg(answer))
           [] OTHER -> pollRows
    /\ pollDels' = IF answer.kind \in TerminalKinds THEN PollDelete(job.job_id) ELSE pollDels
    /\ call' = PollCall("poll_job", job, answer)
    /\ resp' = NoResp
    /\ pre' = PollView(job.study_id)
    /\ UNCHANGED <<pollPc, storeVars, now, extVars, enrichVars, startVars, syncVars>>

\* an exception that is no RequestException leaves the for loop: the outer
\* "except Exception" logs it, conn.commit() is not reached, and the connection
\* is dropped with its transaction
PollAbort(job, answer) ==
    /\ pollPc = "iter"
    /\ job \in pollBatch
    /\ answer.kind = "Malformed"
    /\ pollPc' = "sleep"
    /\ pollBatch' = {}
    /\ UNCHANGED pollResolved
    /\ pollRows' = EmptyTable
    /\ pollDels' = {}
    /\ call' = PollCall("poll_abort", job, answer)
    /\ resp' = NoResp
    /\ pre' = PollView(job.study_id)
    /\ UNCHANGED <<storeVars, now, extVars, enrichVars, startVars, syncVars>>

\* conn.commit() after the for loop, then time.sleep
PollCommit ==
    /\ pollPc = "iter"
    /\ pollBatch = {}
    /\ pollPc' = "sleep"
    /\ study_workflows' = [k \in DOMAIN study_workflows |->
                             IF k \in DOMAIN pollRows THEN pollRows[k] ELSE study_workflows[k]]
    /\ pending_jobs' = Drop(pending_jobs, pollDels)
    /\ pollRows' = EmptyTable
    /\ pollDels' = {}
    /\ call' = [NoCall EXCEPT !.op = "poll_commit"]
    /\ resp' = NoResp
    /\ pre' = NULL
    /\ UNCHANGED <<pollBatch, pollResolved, now, extVars, enrichVars, startVars, syncVars>>

----------------------------------------------------------------------------
(* External systems: Mercure's Bookkeeper database and Orthanc *)

Times == 0..MaxTime

\* Mercure records a received series in dicom_series
BookkeeperReceive(series, uid, t, patient, description) ==
    /\ series \notin DOMAIN bk_series
    /\ bk_series' = Put(bk_series, series,
                        [study_uid |-> uid, time |-> t, tag_patientname |-> patient,
                         tag_studydescription |-> description])
    /\ UNCHANGED <<storeVars, now, bk_tasks, orthanc, bk_events, bk_data, pollVars, enrichVars, startVars, syncVars>>
    /\ Unobserved

\* Mercure's retention removes a series record
BookkeeperPurge(series) ==
    /\ series \in DOMAIN bk_series
    /\ bk_series' = Drop(bk_series, {series})
    /\ UNCHANGED <<storeVars, now, bk_tasks, orthanc, bk_events, bk_data, pollVars, enrichVars, startVars, syncVars>>
    /\ Unobserved

\* Mercure records a task of a study: bk_tasks[uid] is MAX(tasks.time) of the study
BookkeeperTask(uid) ==
    /\ bk_tasks[uid] # Some(now)
    /\ bk_tasks' = [bk_tasks EXCEPT ![uid] = Some(now)]
    /\ UNCHANGED <<storeVars, now, bk_series, orthanc, bk_events, bk_data, pollVars, enrichVars, startVars, syncVars>>
    /\ Unobserved

\* a study arrives in Orthanc / is deleted from it
OrthancStore(study_id, uid, patient) ==
    /\ study_id \notin DOMAIN orthanc
    /\ orthanc' = Put(orthanc, study_id, [StudyInstanceUID |-> uid, PatientName |-> patient])
    /\ UNCHANGED <<storeVars, now, bk_series, bk_tasks, bk_events, bk_data, pollVars, enrichVars, startVars, syncVars>>
    /\ Unobserved

OrthancDelete(study_id) ==
    /\ study_id \in DOMAIN orthanc
    /\ orthanc' = Drop(orthanc, {study_id})
    /\ UNCHANGED <<storeVars, now, bk_series, bk_tasks, bk_events, bk_data, pollVars, enrichVars, startVars, syncVars>>
    /\ Unobserved

Tick ==
    /\ now < MaxTime
    /\ now' = now + 1
    /\ UNCHANGED <<storeVars, extVars, pollVars, enrichVars, startVars, syncVars>>
    /\ Unobserved

----------------------------------------------------------------------------
(* Mercure enricher: enrich_workflows_from_mercure *)

EnrichLimit == 50

\* WHERE mercure_sent_at IS NOT NULL AND (mercure_received_at IS NULL OR
\*   mercure_processing_started_at IS NULL OR mercure_processing_completed_at IS NULL)
EnrichCandidates ==
    {k \in DOMAIN study_workflows :
        /\ study_workflows[k].mercure_sent_at # NULL
        /\ \/ study_workflows[k].mercure_received_at = NULL
           \/ study_workflows[k].mercure_processing_started_at = NULL
           \/ study_workflows[k].mercure_processing_completed_at = NULL}

\* a selection without LIMIT
EnrichBatchesUnlimited == {EnrichCandidates}

\* LIMIT 50 without ORDER BY: any 50 of the candidates, all of them when fewer
EnrichBatches ==
    {B \in SUBSET EnrichCandidates :
        Cardinality(B) = IF Cardinality(EnrichCandidates) < EnrichLimit
                         THEN Cardinality(EnrichCandidates) ELSE EnrichLimit}

\* get_bookkeeper_db() returned None (not configured) or raised (not reachable):
\* the cycle ends without reading the store
EnrichSkip ==
    /\ enrichPc = "sleep"
    /\ call' = [NoCall EXCEPT !.op = "enrich_skip"]
    /\ resp' = NoResp
    /\ pre' = NULL
    /\ UNCHANGED <<storeVars, now, extVars, pollVars, enrichVars, startVars, syncVars>>

EnrichSelect(batch) ==
    /\ enricher_threads > 0
    /\ enrichPc = "sleep"
    /\ batch \in EnrichBatches
    /\ enrichPc' = "iter"
    /\ enrichBatch' = {[study_id |-> k,
                        study_instance_uid |-> study_workflows[k].study_instance_uid] : k \in batch}
    /\ call' = [NoCall EXCEPT !.op = "enrich_select"]
    /\ resp' = NoResp
    /\ pre' = NULL
    /\ UNCHANGED <<storeVars, now, extVars, pollVars, startVars, syncVars>>

\* SELECT MIN(time) as received_at FROM dicom_series WHERE study_uid = %s
BookkeeperReceivedAt(uid) ==
    LET times == {bk_series[x].time : x \in {y \in DOMAIN bk_series : bk_series[y].study_uid = uid}}
    IN IF times = {} THEN NULL ELSE Some(Min(times))

\* an enricher that reads the time of a PROCESS_BEGIN event
ProcessingStartedRead == Some(0)

\* events is left empty (the tasks table cannot be correlated), so the loop over
\* it finds neither PROCESS_BEGIN nor PROCESS_COMPLETE
ProcessingStarted == NULL
ProcessingCompleted == NULL

\* a merge in which the newest observation wins
EnrichMergeLatest(stored, found) == COALESCE(found, stored)

\* SET mercure_received_at = COALESCE(mercure_received_at, %s), ... , updated_at = NOW()
EnrichMerge(stored, found) == COALESCE(stored, found)

EnrichRow(row, received, started, completed, t) ==
    [row EXCEPT
        !.mercure_received_at = EnrichMerge(row.mercure_received_at, received),
        !.mercure_processing_started_at = EnrichMerge(row.mercure_processing_started_at, started),
        !.mercure_processing_completed_at = EnrichMerge(row.mercure_processing_completed_at, completed),
        !.updated_at = Some(t)]

EnrichCall(op, item) ==
    [NoCall EXCEPT !.op = op, !.study_id = Some(item.study_id),
                   !.study_instance_uid = item.study_instance_uid]

\* an enrichment pass that gives up the rest of its batch when one read fails
EnrichStudyAbort(item, read) ==
    /\ enrichPc = "iter"
    /\ item \in enrichBatch
    /\ enrichBatch' = IF item.study_instance_uid # NULL /\ read = "fail" THEN {} ELSE enrichBatch \ {item}
    /\ pre' = RowOf(study_workflows, item.study_id)
    /\ resp' = NoResp
    /\ IF item.study_instance_uid = NULL
       THEN /\ call' = EnrichCall("enrich_nouid", item)
            /\ UNCHANGED study_workflows
       ELSE IF read = "fail"
       THEN /\ call' = EnrichCall("enrich_fail", item)
            /\ UNCHANGED study_workflows
       ELSE /\ \A k \in Target(Some(item.study_id)) : RowFree(k)
            /\ call' = [EnrichCall("enrich_update", item) EXCEPT
                          !.observed = BookkeeperReceivedAt(Val(item.study_instance_uid))]
            /\ LET new == [k \in DOMAIN study_workflows |->
                             EnrichRow(study_workflows[k], BookkeeperReceivedAt(Val(item.study_instance_uid)),
                                       ProcessingStarted, ProcessingCompleted, now)]
               IN study_workflows' = UpdateWhere(Some(item.study_id), new)
    /\ UNCHANGED <<pending_jobs, now, extVars, pollVars, enrichPc, startVars, syncVars>>

\* one iteration of "for study in pending_studies".  read = "fail": the Bookkeeper
\* query raised, the study is skipped
EnrichStudy(item, read) ==
    /\ enrichPc = "iter"
    /\ item \in enrichBatch
    /\ enrichBatch' = enrichBatch \ {item}
    /\ pre' = RowOf(study_workflows, item.study_id)
    /\ resp' = NoResp
    /\ IF item.study_instance_uid = NULL
       THEN /\ call' = EnrichCall("enrich_nouid", item)
            /\ UNCHANGED study_workflows
       ELSE IF read = "fail"
       THEN /\ call' = EnrichCall("enrich_fail", item)
            /\ UNCHANGED study_workflows
       ELSE /\ \A k \in Target(Some(item.study_id)) : RowFree(k)
            /\ call' = [EnrichCall("enrich_update", item) EXCEPT
                          !.observed = BookkeeperReceivedAt(Val(item.study_instance_uid))]
            /\ LET new == [k \in DOMAIN study_workflows |->
                             EnrichRow(study_workflows[k], BookkeeperReceivedAt(Val(item.study_instance_uid)),
                                       ProcessingStarted, ProcessingCompleted, now)]
               IN study_workflows' = UpdateWhere(Some(item.study_id), new)
    /\ UNCHANGED <<pending_jobs, now, extVars, pollVars, enrichPc, startVars, syncVars>>

\* bookkeeper_conn.close(), then time.sleep(30)
EnrichDone ==
    /\ enrichPc = "iter"
    /\ enrichBatch = {}
    /\ enrichPc' = "sleep"
    /\ call' = [NoCall EXCEPT !.op = "enrich_done"]
    /\ resp' = NoResp
    /\ pre' = NULL
    /\ UNCHANGED <<storeVars, now, extVars, pollVars, enrichBatch, startVars, syncVars>>

----------------------------------------------------------------------------
(* GET /workflows/<study_id> *)

\* a status with two values only
StageStatusTwoValued(success) == IF success = Some(TRUE) THEN "success" ELSE "failed"

\* 'success' if w[x] else ('failed' if w[x] is False else 'pending')
StageStatus(success) ==
    IF success = Some(TRUE) THEN "success"
    ELSE IF success = Some(FALSE) THEN "failed" ELSE "pending"

\* 'received' if w['ai_results_received'] else 'waiting'
AiStatus(received) == IF received THEN "received" ELSE "waiting"

Workflow(study_id, w) ==
    [ study_id |-> study_id,
      patient_name |-> w.patient_name,
      study_description |-> w.study_description,
      stages |->
        [ mercure |-> [status |-> StageStatus(w.mercure_send_success),
                       error |-> w.mercure_send_error],
          ai_results |-> [status |-> AiStatus(w.ai_results_received)],
          lpch |-> [status |-> StageStatus(w.lpch_send_success), error |-> w.lpch_send_error],
          lpcht |-> [status |-> StageStatus(w.lpcht_send_success), error |-> w.lpcht_send_error],
          modlink |-> [status |-> StageStatus(w.modlink_send_success),
                       error |-> w.modlink_send_error] ] ]

GetWorkflow(study_id) ==
    /\ call' = [NoCall EXCEPT !.op = "workflow", !.study_id = Some(study_id)]
    /\ pre' = RowOf(study_workflows, study_id)
    /\ resp' = IF study_id \in DOMAIN study_workflows
               THEN [Ok EXCEPT !.workflow = Some(Workflow(study_id, study_workflows[study_id]))]
               ELSE [NoResp EXCEPT !.code = 404]
    /\ UNCHANGED <<storeVars, now, extVars, pollVars, enrichVars, startVars, syncVars>>

----------------------------------------------------------------------------
(* GET /funnel.  Time is counted in hours; percentages are in tenths of a
   percent (750 is 75.0) *)

\* Python's "x or d" on a number
Or(x, d) == IF x = 0 THEN d ELSE x

\* round(num / den, 0) for den > 0, ties to the even neighbour as Python rounds
RoundHalfEven(num, den) ==
    LET q == num \div den
        r == num % den
    IN IF 2 * r < den THEN q
       ELSE IF 2 * r > den THEN q + 1
       ELSE IF q % 2 = 0 THEN q ELSE q + 1

\* pct(n, base): round(n / base * 100, 1) if base > 0 else 0
Pct(n, base) == IF base > 0 THEN RoundHalfEven(n * 1000, base) ELSE 0

\* WHERE created_at > NOW() - INTERVAL '%s hours'
FunnelWindow(hours) ==
    {k \in DOMAIN study_workflows : Val(study_workflows[k].created_at) > now - hours}

\* what GET {orthanc}/studies/{study_id} gives.  fault: "none" Orthanc answers 200
\* or 404, "500" it answers with a server error, "error" the request raises
\* (connection error or timeout); the fault hits the checks of the studies in failing
OrthancAnswer(study_id, fault, failing) ==
    IF fault # "none" /\ study_id \in failing THEN fault
    ELSE IF study_id \in DOMAIN orthanc THEN "200" ELSE "404"

\* an existence check that keeps a study only when Orthanc answers 200
ExistingStudyIdsAnswered(all_studies, fault, failing) ==
    {k \in all_studies : OrthancAnswer(k, fault, failing) = "200"}

\* status 200, or RequestException ("include the study anyway")
ExistingStudyIds(all_studies, fault, failing) ==
    {k \in all_studies : OrthancAnswer(k, fault, failing) \in {"200", "error"}}

\* SELECT COUNT(*) ..., COUNT(*) FILTER (WHERE ...) ... WHERE study_id IN (...)
StatsOf(S) ==
    LET T == study_workflows
        ok(k, st) == Success(T[k], st) = Some(TRUE)
        ko(k, st) == Success(T[k], st) = Some(FALSE)
    IN [ total_studies |-> Cardinality(S),
         sent_to_mercure |-> Cardinality({k \in S : T[k].mercure_sent_at # NULL}),
         mercure_sent_ok |-> Cardinality({k \in S : ok(k, "mercure")}),
         mercure_sent_failed |-> Cardinality({k \in S : ko(k, "mercure")}),
         mercure_received |-> Cardinality({k \in S : T[k].mercure_received_at # NULL}),
         mercure_processing |->
             Cardinality({k \in S : T[k].mercure_processing_started_at # NULL}),
         mercure_completed |->
             Cardinality({k \in S : T[k].mercure_processing_completed_at # NULL}),
         ai_results_received |-> Cardinality({k \in S : T[k].ai_results_received}),
         ai_results_waiting |->
             Cardinality({k \in S : ok(k, "mercure") /\ ~T[k].ai_results_received}),
         lpch_attempted |-> Cardinality({k \in S : T[k].lpch_sent_at # NULL}),
         lpch_sent_ok |-> Cardinality({k \in S : ok(k, "lpch")}),
         lpch_sent_failed |-> Cardinality({k \in S : ko(k, "lpch")}),
         lpcht_attempted |-> Cardinality({k \in S : T[k].lpcht_sent_at # NULL}),
         lpcht_sent_ok |-> Cardinality({k \in S : ok(k, "lpcht")}),
         lpcht_sent_failed |-> Cardinality({k \in S : ko(k, "lpcht")}),
         modlink_attempted |-> Cardinality({k \in S : T[k].modlink_sent_at # NULL}),
         modlink_sent_ok |-> Cardinality({k \in S : ok(k, "modlink")}),
         modlink_sent_failed |-> Cardinality({k \in S : ko(k, "modlink")}),
         fully_complete |->
             Cardinality({k \in S : /\ T[k].ai_results_received
                                    /\ ok(k, "lpch") /\ ok(k, "lpcht") /\ ok(k, "modlink")}) ]

\* "if existing_study_ids: ... else: SELECT 0 as total_studies, ..."
FunnelStats(existing) ==
    IF existing # {} THEN StatsOf(existing)
    ELSE [f \in DOMAIN StatsOf({}) |-> 0]

\* a "Routed to Destinations" percentage taken of all studies of the window
RoutedPercentOfTotal(stats) == Pct(stats.fully_complete, stats.total_studies)

\* 'percent': pct(destinations_all_success, ai_received or 1)
RoutedPercent(stats) == Pct(stats.fully_complete, Or(stats.ai_results_received, 1))

\* 'percent': pct(ai_received, stats['mercure_completed'] or 1)
AiBackPercent(stats) == Pct(stats.ai_results_received, Or(stats.mercure_completed, 1))

Funnel(hours, stats) ==
    LET total == stats.total_studies
        ai_received == stats.ai_results_received
        destinations_all_success == stats.fully_complete
        destinations_any_failed ==
            stats.lpch_sent_failed + stats.lpcht_sent_failed + stats.modlink_sent_failed
    IN [ time_range_hours |-> hours,
         total_studies |-> total,
         pipeline |-> <<
            [ stage |-> "INPUT", name |-> "Studies in Orthanc",
              count |-> total, percent |-> 1000, status |-> "neutral" ],
            [ stage |-> "INPUT", name |-> "Sent to Mercure",
              count |-> stats.sent_to_mercure,
              percent |-> Pct(stats.sent_to_mercure, total),
              status |-> IF stats.sent_to_mercure > 0 THEN "success" ELSE "neutral" ],
            [ stage |-> "PROCESSING", name |-> "Received at Mercure",
              count |-> stats.mercure_received,
              percent |-> Pct(stats.mercure_received, Or(stats.sent_to_mercure, 1)),
              base_count |-> stats.sent_to_mercure,
              status |-> IF stats.mercure_received > 0 THEN "success" ELSE "waiting" ],
            [ stage |-> "OUTPUT", name |-> "AI Results Back to Orthanc",
              count |-> ai_received,
              percent |-> AiBackPercent(stats),
              base_count |-> stats.mercure_completed,
              status |-> IF ai_received > 0 THEN "success" ELSE "waiting" ],
            [ stage |-> "OUTPUT", name |-> "Routed to Destinations",
              count |-> destinations_all_success,
              percent |-> RoutedPercent(stats),
              base_count |-> ai_received,
              failed |-> destinations_any_failed,
              status |-> IF destinations_any_failed = 0 /\ ai_received > 0 THEN "success"
                         ELSE IF destinations_any_failed > 0 THEN "warning" ELSE "neutral",
              children |-> <<
                 [ name |-> "LPCH", count |-> stats.lpch_sent_ok,
                   percent |-> Pct(stats.lpch_sent_ok, Or(ai_received, 1)),
                   failed |-> stats.lpch_sent_failed ],
                 [ name |-> "LPCHT", count |-> stats.lpcht_sent_ok,
                   percent |-> Pct(stats.lpcht_sent_ok, Or(ai_received, 1)),
                   failed |-> stats.lpcht_sent_failed ],
                 [ name |-> "MODLINK", count |-> stats.modlink_sent_ok,
                   percent |-> Pct(stats.modlink_sent_ok, Or(ai_received, 1)),
                   failed |-> stats.modlink_sent_failed ] >> ] >>,
         summary |->
            [ mercure_success_rate |-> Pct(ai_received, Or(stats.mercure_sent_ok, 1)),
              routing_success_rate |-> Pct(destinations_all_success, ai_received),
              overall_success_rate |-> Pct(stats.fully_complete, total),
              drop_off |-> [ mercure_send |-> stats.mercure_sent_failed,
                             ai_no_response |-> stats.ai_results_waiting,
                             routing_failed |-> destinations_any_failed ] ] ]

GetFunnel(hours, fault, failing) ==
    /\ call' = [NoCall EXCEPT !.op = "funnel", !.hours = hours, !.fault = fault,
                              !.failing = failing]
    /\ pre' = NULL
    /\ resp' = [Ok EXCEPT !.funnel =
                  Some(Funnel(hours, FunnelStats(ExistingStudyIds(FunnelWindow(hours), fault, failing))))]
    /\ UNCHANGED <<storeVars, now, extVars, pollVars, enrichVars, startVars, syncVars>>

----------------------------------------------------------------------------
(* GET /workflows, with the window and the answers of Orthanc of GET /funnel *)

\* WHERE created_at > NOW() - INTERVAL '%s hours' ORDER BY created_at DESC LIMIT %s:
\* the newest rows of the window, up to limit of them (rows of equal
\* created_at in any order)
WorkflowPages(hours, limit) ==
    LET window == FunnelWindow(hours)
    IN {B \in SUBSET window :
          /\ Cardinality(B) = Min({limit, Cardinality(window)})
          /\ \A k \in B, o \in window \ B :
                Val(study_workflows[k].created_at) >= Val(study_workflows[o].created_at)}

\* "if resp.status_code == 404: continue"; "except requests.RequestException: pass"
ListedStudyIds(workflows, fault, failing) ==
    {k \in workflows : OrthancAnswer(k, fault, failing) # "404"}

\* listed: the study_id values of the entries of the answer
GetWorkflows(hours, limit, fault, failing, page) ==
    /\ page \in WorkflowPages(hours, limit)
    /\ call' = [NoCall EXCEPT !.op = "workflows", !.hours = hours, !.limit = limit,
                              !.fault = fault, !.failing = failing]
    /\ pre' = NULL
    /\ resp' = [Ok EXCEPT !.listed = ListedStudyIds(page, fault, failing)]
    /\ UNCHANGED <<storeVars, now, extVars, pollVars, enrichVars, startVars, syncVars>>

----------------------------------------------------------------------------
(* POST /workflows/sync *)

\* ORDER BY ds.study_uid, on the uids of the model
UidRank(uid) == CASE uid = "U1" -> 1 [] uid = "U2" -> 2

\* the series records in an order the query can return them: sorted by study_uid,
\* records of one study in any order
SeriesOrders ==
    LET n == Cardinality(DOMAIN bk_series)
    IN {o \in [1..n -> DOMAIN bk_series] :
          /\ \A i, j \in 1..n : i # j => o[i] # o[j]
          /\ \A i, j \in 1..n :
                i < j => UidRank(bk_series[o[i]].study_uid) <= UidRank(bk_series[o[j]].study_uid)}

\* the orthanc_studies map (StudyInstanceUID -> study) a run can build: a study is
\* missing from it when its GET /studies/{id} failed or was not answered with 200,
\* and of two Orthanc studies with one StudyInstanceUID the one fetched last stays
OrthancMaps ==
    LET uids == {orthanc[k].StudyInstanceUID : k \in DOMAIN orthanc}
        maps(D) == {m \in [D -> DOMAIN orthanc] : \A u \in D : orthanc[m[u]].StudyInstanceUID = u}
    IN UNION {maps(D) : D \in SUBSET uids}

\* study_data.get('PatientMainDicomTags', {}).get('PatientName', tag_patientname)
SyncPatientName(study, record) ==
    IF study.PatientName # NULL THEN study.PatientName ELSE record.tag_patientname

\* the row of the INSERT: mercure_sent_at = received_time, mercure_send_success and
\* ai_results_received TRUE, ai_results_received_at = last_task_time (MAX(t.time)
\* of the study's tasks), created_at = updated_at = utcnow()
SyncNewRow(study, record, t) ==
    [NewRow(Some(record.study_uid), SyncPatientName(study, record),
            record.tag_studydescription, t)
       EXCEPT !.mercure_sent_at = Some(record.time),
              !.mercure_send_success = Some(TRUE),
              !.ai_results_received = TRUE,
              !.ai_results_received_at = bk_tasks[record.study_uid]]

\* a run that commits what it has inserted when it fails
SyncAbandonCommits(table, rows) ==
    [k \in DOMAIN table \cup DOMAIN rows |-> IF k \in DOMAIN rows THEN rows[k] ELSE table[k]]

\* the run ends without workflow_conn.commit(): the connection is dropped and
\* its transaction rolled back
SyncAbandon(table, rows) == table

\* a check for an existing row that never finds one
SyncTrackedNever(table, study_id) == FALSE

\* SELECT study_id FROM study_workflows WHERE study_id = %s, inside the run's
\* transaction: it sees the rows the run has inserted so far
SyncTracked(table, study_id) == study_id \in DOMAIN table

\* INSERT ... ON CONFLICT (study_id) DO UPDATE: the new row replaces the old
SyncInsertReplace(table, study_id, row) == Put(table, study_id, row)

\* INSERT ... ON CONFLICT (study_id) DO NOTHING
SyncInsert(table, study_id, row) ==
    IF study_id \in DOMAIN table THEN table ELSE Put(table, study_id, row)

\* "for series_record in mercure_series": the table as the transaction sees it and
\* synced_count after the records of `records`
RECURSIVE SyncLoop(_, _, _, _)
SyncLoop(records, seen, table, count) ==
    IF records = <<>> THEN [table |-> table, synced |-> count]
    ELSE LET record == bk_series[Head(records)]
             study_uid == record.study_uid
         IN IF study_uid \notin DOMAIN seen
            THEN SyncLoop(Tail(records), seen, table, count)
            ELSE IF SyncTracked(table, seen[study_uid])
            THEN SyncLoop(Tail(records), seen, table, count)
            ELSE SyncLoop(Tail(records), seen,
                          SyncInsert(table, seen[study_uid],
                                     SyncNewRow(orthanc[seen[study_uid]], record, now)),
                          count + 1)

\* bk: "ok", or "none" when get_bookkeeper_db() returns None.  listing: what
\* GET {orthanc}/studies gives, "200", another status ("500"), or "error" when the
\* request raises
SyncWorkflows(bk, listing, seen, order) ==
    /\ seen \in OrthancMaps
    /\ order \in SeriesOrders
    /\ listing # "200" => seen = <<>>
    /\ LET found == IF listing = "200" THEN seen ELSE <<>>
           repeat == call.op = "sync" /\ resp.code = 200
           done == SyncLoop(order, found, study_workflows, 0)
       IN /\ call' = [NoCall EXCEPT !.op = "sync", !.answer = listing, !.fault = bk,
                        !.seen = found, !.tracked = DOMAIN study_workflows,
                        !.repeat = repeat,
                        !.same = repeat /\ call.seen = found /\ call.answer = listing]
          /\ pre' = NULL
          /\ IF bk = "none" \/ listing = "error"
             THEN /\ resp' = [NoResp EXCEPT !.code = 503]
                  /\ UNCHANGED study_workflows
             ELSE /\ \A k \in DOMAIN done.table \ DOMAIN study_workflows : RowFree(k)
                  /\ study_workflows' = done.table
                  /\ resp' = [Ok EXCEPT !.synced = done.synced]
    /\ UNCHANGED <<pending_jobs, now, extVars, pollVars, enrichVars, startVars, syncVars>>

----------------------------------------------------------------------------
(* Initial state: empty tables (init_db), both loops about to start a cycle *)

----------------------------------------------------------------------------
(* Lazy start of the two background loops. Every request runs the before_request
   hook ensure_pollers_running on its own thread (app.run serves each request
   on a thread); the hook and the two start functions read and write the module
   globals without a lock, so each read, each Thread.start() and each
   assignment is a step of its own. *)

MaxRequests == 3
Requests == 1 .. MaxRequests

Goto(r, label) == reqPc' = [reqPc EXCEPT ![r] = label]

\* a request arrives and enters ensure_pollers_running
RequestArrives(r) ==
    /\ reqPc[r] = "idle"
    /\ Goto(r, "if_initialized")
    /\ Unobserved
    /\ UNCHANGED <<storeVars, now, extVars, pollVars, enrichVars, syncVars, initialized,
                   poller_started, enricher_started, poller_threads, enricher_threads>>

\* if _initialized:
EnsureInitialized(r) ==
    /\ reqPc[r] = "if_initialized"
    /\ Goto(r, IF initialized THEN "if_not_poller_started" ELSE "view")
    /\ Unobserved
    /\ UNCHANGED <<storeVars, now, extVars, pollVars, enrichVars, syncVars, initialized,
                   poller_started, enricher_started, poller_threads, enricher_threads>>

\* if not _poller_started: start_job_poller(), whose first statement is
\* "if _poller_started: return"
EnsurePoller(r) ==
    /\ reqPc[r] \in {"if_not_poller_started", "if_poller_started"}
    /\ Goto(r, IF poller_started THEN "if_not_enricher_started"
               ELSE IF reqPc[r] = "if_not_poller_started" THEN "if_poller_started"
               ELSE "poller_thread_start")
    /\ Unobserved
    /\ UNCHANGED <<storeVars, now, extVars, pollVars, enrichVars, syncVars, initialized,
                   poller_started, enricher_started, poller_threads, enricher_threads>>

\* poller_thread = threading.Thread(target=poll_pending_jobs); poller_thread.start()
PollerThreadStart(r) ==
    /\ reqPc[r] = "poller_thread_start"
    /\ poller_threads' = poller_threads + 1
    /\ Goto(r, "poller_started")
    /\ Unobserved
    /\ UNCHANGED <<storeVars, now, extVars, pollVars, enrichVars, syncVars, initialized,
                   poller_started, enricher_started, enricher_threads>>

\* _poller_started = True
PollerStarted(r) ==
    /\ reqPc[r] = "poller_started"
    /\ poller_started' = TRUE
    /\ Goto(r, "if_not_enricher_started")
    /\ Unobserved
    /\ UNCHANGED <<storeVars, now, extVars, pollVars, enrichVars, syncVars, initialized,
                   enricher_started, poller_threads, enricher_threads>>

\* if not _enricher_started: start_mercure_enricher(), whose first statement is
\* "if _enricher_started: return"
EnsureEnricher(r) ==
    /\ reqPc[r] \in {"if_not_enricher_started", "if_enricher_started"}
    /\ Goto(r, IF enricher_started THEN "view"
               ELSE IF reqPc[r] = "if_not_enricher_started" THEN "if_enricher_started"
               ELSE "enricher_thread_start")
    /\ Unobserved
    /\ UNCHANGED <<storeVars, now, extVars, pollVars, enrichVars, syncVars, initialized,
                   poller_started, enricher_started, poller_threads, enricher_threads>>

\* enricher_thread = threading.Thread(target=enrich_workflows_from_mercure); enricher_thread.start()
EnricherThreadStart(r) ==
    /\ reqPc[r] = "enricher_thread_start"
    /\ enricher_threads' = enricher_threads + 1
    /\ Goto(r, "enricher_started")
    /\ Unobserved
    /\ UNCHANGED <<storeVars, now, extVars, pollVars, enrichVars, syncVars, initialized,
                   poller_started, enricher_started, poller_threads>>

\* _enricher_started = True
EnricherStarted(r) ==
    /\ reqPc[r] = "enricher_started"
    /\ enricher_started' = TRUE
    /\ Goto(r, "view")
    /\ Unobserved
    /\ UNCHANGED <<storeVars, now, extVars, pollVars, enrichVars, syncVars, initialized,
                   poller_started, poller_threads, enricher_threads>>

\* the view function runs and the request ends; the thread serves the next one
RequestDone(r) ==
    /\ reqPc[r] = "view"
    /\ Goto(r, "idle")
    /\ Unobserved
    /\ UNCHANGED <<storeVars, now, extVars, pollVars, enrichVars, syncVars, initialized,
                   poller_started, enricher_started, poller_threads, enricher_threads>>

\* the serving process once a first request has gone through ensure_pollers_running:
\* database initialised, both loops started, no request inside the hook
Running ==
    /\ initialized = TRUE
    /\ poller_started = TRUE
    /\ enricher_started = TRUE
    /\ poller_threads = 1
    /\ enricher_threads = 1
    /\ reqPc = [r \in Requests |-> "idle"]

----------------------------------------------------------------------------

Init ==
    /\ study_workflows = EmptyTable
    /\ pending_jobs = EmptyTable
    /\ now = 0
    /\ bk_series = EmptyTable
    /\ bk_tasks = [u \in Uids |-> NULL]
    /\ bk_events = <<>>
    /\ bk_data = <<>>
    /\ orthanc = EmptyTable
    /\ pollPc = "sleep"
    /\ pollBatch = {}
    /\ pollRows = EmptyTable
    /\ pollDels = {}
    /\ pollResolved = {}
    /\ enrichPc = "sleep"
    /\ enrichBatch = {}
    /\ call = NoCall
    /\ resp = NoResp
    /\ pre = NULL
    /\ SyncIdle
    /\ Running

----------------------------------------------------------------------------
(* SpecStart: /track/start with every combination of optional fields, between
   resets, AI results and clock ticks *)

NextStart ==
    \/ \E s \in Opt({"S1"}), u \in Opt({"U1"}), p \in Opt(Names), d \in Opt(Descriptions) :
          TrackStart(s, u, p, d)
    \/ TrackStart(Some("S2"), NULL, NULL, NULL)
    \/ \E s \in Opt(StudyIds) : TrackReset(s)
    \/ Tick

SpecStart == Init /\ [][NextStart]_vars

IdentityFields == {"study_instance_uid", "patient_name", "study_description"}

\* the last operation was a /track/start that found a row for its study
RestartDone == call.op = "start" /\ resp.code = 200 /\ pre # NULL
RowNow == study_workflows[Val(call.study_id)]

\* C2: a /track/start on an already-tracked study leaves non-null each of
\* study_instance_uid, patient_name and study_description that was non-null before
\* the call, whichever of them the call omits or sends as null.
C2_StartNeverNulls ==
    RestartDone => \A f \in IdentityFields : Val(pre)[f] # NULL => RowNow[f] # NULL

\* a second /track/start that omitted (or sent null for) fields the row already held
C2_Witness ==
    /\ RestartDone
    /\ call.patient_name = NULL /\ Val(pre).patient_name # NULL
    /\ call.study_instance_uid = NULL /\ Val(pre).study_instance_uid # NULL
    /\ call.study_description # NULL

\* C3 as stated: a /track/start on an already-tracked study keeps the previous value
\* of every identity field that is already non-null, also when the call supplies a
\* different non-null value.
C3_StartKeepsStored ==
    RestartDone => \A f \in IdentityFields : Val(pre)[f] # NULL => RowNow[f] = Val(pre)[f]

\* C3 amended: a /track/start on an already-tracked study sets each identity field
\* to the value the call supplies when that value is non-null (also over a different
\* non-null value already stored), and keeps the stored value when the call omits
\* the field or sends null.
C3_StartTakesGiven ==
    RestartDone => \A f \in IdentityFields :
        RowNow[f] = IF call[f] # NULL THEN call[f] ELSE Val(pre)[f]

\* a /track/start that supplied a patient_name different from the stored one
C3_Witness ==
    /\ RestartDone
    /\ Val(pre).patient_name # NULL
    /\ call.patient_name # NULL
    /\ call.patient_name # Val(pre).patient_name

----------------------------------------------------------------------------
(* Spec: the tracking API.  Study S1 receives every kind of request; S2 is a
   second tracked study. *)

SuccessRaw == {"absent", "null", "true", "false"}

Next ==
    \/ \E s \in Opt(StudyIds) : TrackStart(s, NULL, NULL, NULL)
    \/ \E raw \in {"true", "false"} : TrackMercureSent(Some("S1"), raw, NULL)
    \/ \E s \in Opt(StudyIds) : TrackAiResults(s)
    \/ \E d \in {"MERCURE", "lpch", "foo"}, raw \in SuccessRaw :
          TrackDestination(Some("S1"), d, raw, NULL)
    \/ TrackDestination(Some("S1"), "lpch", "false", Some("E1"))
    \/ \E d \in {"LPCHTROUTER", "modlink"} : TrackDestination(Some("S1"), d, "true", NULL)
    \/ \E s \in Opt(StudyIds) : TrackReset(s)
    \/ \E j \in Opt({"J1"}), s \in Opt(StudyIds), d \in {"lpch", ""} : TrackJob(j, s, d)

Spec == Init /\ [][Next]_vars

\* C1: while a row exists, a stage's success that is non-null (true or false) is
\* never set back to null, by any operation.
C1_OutcomeNeverReverts ==
    [][\A s \in DOMAIN study_workflows \cap DOMAIN study_workflows' :
         \A st \in Stages :
            Success(study_workflows[s], st) # NULL => Success(study_workflows'[s], st) # NULL]_vars

\* C7: /track/reset reports in `deleted` what it removed: 0 when the study is absent,
\* and a non-zero count whenever an existing study_workflows row was deleted.
C7_DeletedCountsRemoved ==
    (call.op = "reset" /\ resp.code = 200) =>
        /\ pre = NULL => resp.deleted = 0
        /\ pre # NULL => resp.deleted # 0

----------------------------------------------------------------------------
(* SpecPoll: jobs are registered for two studies, the poller runs its cycles,
   studies are reset in between *)

PollAnswers ==
    {Answer(k, NULL, NULL) : k \in {"404", "Success", "Failure", "Running", "Error"}}
      \cup {Answer("Failure", Some("E1"), Some("C1")), Answer("Failure", NULL, Some("C1"))}

NextPoll ==
    \/ \E s \in StudyIds : TrackStart(Some(s), NULL, NULL, NULL)
    \/ \E s \in StudyIds, d \in {"lpch", "foo"} : TrackJob(Some("J1"), Some(s), d)
    \/ TrackJob(Some("J2"), Some("S1"), "lpch")
    \/ \E s \in StudyIds : TrackReset(Some(s))
    \/ PollLoad
    \/ \E job \in pollBatch, answer \in PollAnswers : PollJob(job, answer)
    \/ \E job \in pollBatch : PollAbort(job, Answer("Malformed", NULL, NULL))
    \/ PollCommit

SpecPoll == Init /\ [][NextPoll]_vars

\* the poller's cycle has just ended, by its commit or by an exception
CycleEnded == call.op \in {"poll_commit", "poll_abort"}

\* C5: a job of the cycle's batch that the endpoint answered with Success, Failure
\* or 404 has no pending_jobs row any more once that cycle has ended.
C5_ResolvedJobsGone ==
    CycleEnded => \A j \in pollResolved : j \notin DOMAIN pending_jobs

\* a step that ends with /track/reset having answered ok for study s
ResetOk(s) == call'.op = "reset" /\ resp'.code = 200 /\ call'.study_id = Some(s)

OtherJobsKept(s) ==
    /\ DOMAIN pending_jobs' \subseteq DOMAIN pending_jobs
    /\ \A j \in DOMAIN pending_jobs :
          pending_jobs[j].study_id # s =>
             j \in DOMAIN pending_jobs' /\ pending_jobs'[j] = pending_jobs[j]

----------------------------------------------------------------------------
(* SpecEnrich: studies are sent to Mercure, Bookkeeper records and purges series
   at different times, the enricher runs its cycles, studies are reset and
   restarted in between *)

NextEnrich ==
    \/ \E u \in Opt({"U1"}) : TrackStart(Some("S1"), u, NULL, NULL)
    \/ TrackMercureSent(Some("S1"), "true", NULL)
    \/ TrackAiResults(Some("S1"))
    \/ TrackDestination(Some("S1"), "mercure", "false", NULL)
    \/ TrackReset(Some("S1"))
    \/ \E x \in SeriesIds, t \in Times : BookkeeperReceive(x, "U1", t, NULL, NULL)
    \/ \E x \in SeriesIds : BookkeeperPurge(x)
    \/ EnrichSkip
    \/ \E batch \in EnrichBatches : EnrichSelect(batch)
    \/ \E item \in enrichBatch, read \in {"ok", "fail"} : EnrichStudy(item, read)
    \/ EnrichDone
    \/ Tick

SpecEnrich == Init /\ [][NextEnrich]_vars

MercureTimes ==
    {"mercure_received_at", "mercure_processing_started_at", "mercure_processing_completed_at"}

\* C4: once mercure_received_at, mercure_processing_started_at or
\* mercure_processing_completed_at of a row is non-null, no step changes it while
\* the row exists, also not an enrichment pass that observes another value.
C4_FirstWriteWins ==
    [][\A s \in DOMAIN study_workflows \cap DOMAIN study_workflows' :
         \A f \in MercureTimes :
            study_workflows[s][f] # NULL => study_workflows'[s][f] = study_workflows[s][f]]_vars

\* an enrichment pass found received_at set, observed another value in Bookkeeper
\* and ran its UPDATE
C4_Witness ==
    /\ call.op = "enrich_update"
    /\ pre # NULL
    /\ Val(pre).mercure_received_at # NULL
    /\ call.observed # NULL
    /\ call.observed # Val(pre).mercure_received_at
    /\ Val(call.study_id) \in DOMAIN study_workflows
    /\ study_workflows[Val(call.study_id)].mercure_received_at = Val(pre).mercure_received_at

----------------------------------------------------------------------------
(* SpecFunnel: /funnel is asked about stores of MaxStudies studies in every
   mix of pipeline progress, while Orthanc loses studies and time passes *)

MaxStudies == 4

IdOf(i) == "S" \o ToString(i)
FunnelIds == {IdOf(i) : i \in 1..MaxStudies}

\* rows as the tracking handlers leave them at time 0
RowStarted == NewRow(NULL, NULL, NULL, 0)
RowSendFailed == MercureSentRow(RowStarted, Some(FALSE), Some("E1"), 0)
RowAi == AiResultsRow(RowStarted, 0)
RowComplete ==
    DestinationRow(DestinationRow(DestinationRow(RowAi, "lpch", Some(TRUE), NULL, 0),
                                  "lpcht", Some(TRUE), NULL, 0),
                   "modlink", Some(TRUE), NULL, 0)
RowPartial ==
    DestinationRow(DestinationRow(DestinationRow(RowAi, "lpch", Some(TRUE), NULL, 0),
                                  "lpcht", Some(FALSE), Some("E1"), 0),
                   "modlink", Some(TRUE), NULL, 0)
FunnelRows == {RowStarted, RowSendFailed, RowAi, RowComplete, RowPartial}

InitFunnel ==
    /\ study_workflows \in [FunnelIds -> FunnelRows]
    /\ pending_jobs = EmptyTable
    /\ now = 0
    /\ bk_series = EmptyTable
    /\ bk_tasks = [u \in Uids |-> NULL]
    /\ bk_events = <<>>
    /\ bk_data = <<>>
    /\ orthanc = [k \in FunnelIds |-> [StudyInstanceUID |-> "U1", PatientName |-> NULL]]
    /\ pollPc = "sleep"
    /\ pollBatch = {}
    /\ pollRows = EmptyTable
    /\ pollDels = {}
    /\ pollResolved = {}
    /\ enrichPc = "sleep"
    /\ enrichBatch = {}
    /\ call = NoCall
    /\ resp = NoResp
    /\ pre = NULL
    /\ SyncIdle
    /\ Running

NextFunnel ==
    \/ \E hours \in {1, 24} : GetFunnel(hours, "none", {})
    \/ \E fault \in {"500", "error"} : GetFunnel(24, fault, FunnelIds)
    \/ GetFunnel(24, "error", {IdOf(1)})
    \/ OrthancDelete(IdOf(2))
    \/ Tick

SpecFunnel == InitFunnel /\ [][NextFunnel]_vars

FunnelAnswered == call.op = "funnel" /\ resp.code = 200

\* the studies the answered /funnel request counted: created inside its window
\* and still in Orthanc, or all of the window when Orthanc could not be asked
Surviving == ExistingStudyIds(FunnelWindow(call.hours), call.fault, call.failing)

AiReceivedIds == {k \in Surviving : study_workflows[k].ai_results_received}
FullyCompleteIds ==
    {k \in AiReceivedIds : \A st \in DestStages : Success(study_workflows[k], st) = Some(TRUE)}
MercureCompletedIds ==
    {k \in Surviving : study_workflows[k].mercure_processing_completed_at # NULL}

Entry(name) ==
    LET pipeline == Val(resp.funnel).pipeline
    IN pipeline[CHOOSE i \in DOMAIN pipeline : pipeline[i].name = name]

\* p (in tenths of a percent) is n / base * 100 rounded to one decimal
IsPercentOf(p, n, base) ==
    LET d == 10 * p * base - 10000 * n
    IN -5 * base <= d /\ d <= 5 * base

\* C8: the "Routed to Destinations" entry has count = number of surviving studies
\* with AI results and lpch, lpcht, modlink all successful, base_count = number of
\* surviving studies with AI results, and percent = count / base_count * 100
\* rounded to one decimal (0 when there is no study with AI results).
C8_RoutedToDestinations ==
    FunnelAnswered =>
        LET e == Entry("Routed to Destinations")
            count == Cardinality(FullyCompleteIds)
            base == Cardinality(AiReceivedIds)
        IN /\ e.count = count
           /\ e.base_count = base
           /\ IF base > 0 THEN IsPercentOf(e.percent, count, base) ELSE e.percent = 0

\* the documented example: 4 studies with AI results, 3 of them fully routed,
\* reported as count 3, base 4, 75.0 percent
C8_Witness ==
    /\ FunnelAnswered
    /\ Cardinality(AiReceivedIds) = 4
    /\ Cardinality(FullyCompleteIds) = 3
    /\ Entry("Routed to Destinations").percent = 750

\* C9: the "AI Results Back" entry's percent is the AI-results count as a percentage
\* of the mercure-completed count (studies with mercure_processing_completed_at
\* set), for every combination of counts, a mercure-completed count of 0 included
\* (where pct reports 0).
C9_AiBackOfMercureCompleted ==
    FunnelAnswered =>
        LET e == Entry("AI Results Back to Orthanc")
            n == Cardinality(AiReceivedIds)
            base == Cardinality(MercureCompletedIds)
        IN IF base > 0 THEN IsPercentOf(e.percent, n, base) ELSE e.percent = 0

----------------------------------------------------------------------------
(* SpecList: /workflows and /funnel are asked about the stores of SpecFunnel
   with the same windows and the same answers of Orthanc *)

NextList ==
    \/ \E hours \in {1, 24}, limit \in {2, MaxStudies} :
          \E page \in WorkflowPages(hours, limit) : GetWorkflows(hours, limit, "none", {}, page)
    \/ \E fault \in {"500", "error"} :
          \E page \in WorkflowPages(24, MaxStudies) :
             GetWorkflows(24, MaxStudies, fault, FunnelIds, page)
    \/ \E hours \in {1, 24} : GetFunnel(hours, "none", {})
    \/ \E fault \in {"500", "error"} : GetFunnel(24, fault, FunnelIds)
    \/ OrthancDelete(IdOf(2))
    \/ Tick

SpecList == InitFunnel /\ [][NextList]_vars

\* C38: for the same store, window and answers of Orthanc, the studies listed
\* by /workflows (limit at least the window size) are the studies /funnel
\* counts in total_studies
C38_SameExistenceFilter ==
    /\ call.op = "workflows" /\ call.limit >= Cardinality(FunnelWindow(call.hours)) =>
          resp.listed = ExistingStudyIds(FunnelWindow(call.hours), call.fault, call.failing)
    /\ FunnelAnswered =>
          Val(resp.funnel).total_studies =
             Cardinality(ListedStudyIds(FunnelWindow(call.hours), call.fault, call.failing))

----------------------------------------------------------------------------
(* SpecSync: Mercure records series and tasks, Orthanc gains and loses studies (two
   of them may carry one StudyInstanceUID), studies are tracked and reset, and
   /workflows/sync runs with every upstream answer *)

NextSync ==
    \/ BookkeeperReceive("X1", "U1", now, NULL, Some("D1"))
    \/ \E u \in Uids : BookkeeperReceive("X2", u, now, Some("P2"), NULL)
    \/ BookkeeperTask("U1")
    \/ OrthancStore("S1", "U1", Some("P1"))
    \/ \E u \in Uids : OrthancStore("S2", u, NULL)
    \/ \E s \in StudyIds : OrthancDelete(s)
    \/ TrackStart(Some("S1"), NULL, NULL, NULL)
    \/ \E s \in StudyIds : TrackReset(Some(s))
    \/ \E bk \in {"ok", "none"}, listing \in {"200", "500", "error"},
          seen \in OrthancMaps, order \in SeriesOrders : SyncWorkflows(bk, listing, seen, order)

SpecSync == Init /\ [][NextSync]_vars

SyncAnswered == call.op = "sync" /\ resp.code = 200

\* C10 as stated: a sync run that directly follows a sync run, with nothing changed
\* in Bookkeeper or Orthanc in between, reports synced = 0 and leaves the set of
\* rows as the first run left it; a run adds one row per study however many series
\* records the study has.
C10_SecondSyncAddsNothing ==
    SyncAnswered =>
        /\ call.tracked \subseteq DOMAIN study_workflows
        /\ resp.synced = Cardinality(DOMAIN study_workflows \ call.tracked)
        /\ call.repeat => resp.synced = 0 /\ DOMAIN study_workflows = call.tracked

\* C10 amended: the same, for a second run that got the same answers from Orthanc
\* as the first (the same listing status and the same studies fetched).
C10_SecondSyncSameAnswers ==
    SyncAnswered =>
        /\ call.tracked \subseteq DOMAIN study_workflows
        /\ resp.synced = Cardinality(DOMAIN study_workflows \ call.tracked)
        /\ call.same => resp.synced = 0 /\ DOMAIN study_workflows = call.tracked

\* a second run with the same answers met a study that the first run had synced
\* from two series records, and skipped it
C10_Witness ==
    /\ SyncAnswered
    /\ call.same
    /\ \E u \in DOMAIN call.seen :
          /\ call.seen[u] \in call.tracked
          /\ study_workflows[call.seen[u]].ai_results_received
          /\ Cardinality({x \in DOMAIN bk_series : bk_series[x].study_uid = u}) = 2

----------------------------------------------------------------------------
(* SpecTrack: the tracking API on study S1 with every kind of request body (fields
   missing, destination names in any letter case, unknown names, success true,
   false, null or missing), S2 tracked alongside, /workflows/<id> read in between *)

NextTrack ==
    \/ \E s \in Opt(StudyIds) : TrackStart(s, NULL, NULL, NULL)
    \/ \E s \in Opt({"S1"}), raw \in {"true", "false"} : TrackMercureSent(s, raw, NULL)
    \/ \E s \in Opt({"S1"}) : TrackAiResults(s)
    \/ \E s \in Opt({"S1"}), d \in {"MERCURE", "Mercure", "lpch", "LPCHROUTER", "LpchtRouter",
                                  "lpcht", "ModLink", "foo", ""} :
          TrackDestination(s, d, "true", NULL)
    \/ \E d \in {"mercure", "Lpch", "MODLINK"}, raw \in {"false", "absent"} :
          TrackDestination(Some("S1"), d, raw, Some("E1"))
    \/ \E j \in Opt({"J1"}), s \in Opt({"S1"}), d \in {"lpch", ""} : TrackJob(j, s, d)
    \/ \E s \in Opt({"S1"}) : TrackReset(s)
    \/ \E s \in StudyIds : GetWorkflow(s)

SpecTrack == Init /\ [][NextTrack]_vars

WorkflowAnswered == call.op = "workflow" /\ resp.code = 200

\* C11: GET /workflows/<id> shows each stage as "success" iff its success is true,
\* "failed" iff false, "pending" iff null, and ai_results as "received" iff AI
\* results were received; after start, destination(MERCURE, true), ai-results this
\* is mercure "success", ai_results "received", lpch, lpcht and modlink "pending".
C11_StatusShown ==
    WorkflowAnswered =>
        LET row == study_workflows[Val(call.study_id)]
            stages == Val(resp.workflow).stages
        IN /\ \A st \in Stages :
                /\ stages[st].status = "success" <=> Success(row, st) = Some(TRUE)
                /\ stages[st].status = "failed" <=> Success(row, st) = Some(FALSE)
                /\ stages[st].status = "pending" <=> Success(row, st) = NULL
           /\ stages.ai_results.status = "received" <=> row.ai_results_received

\* the scenario's answer: gateway send successful, AI results received, the three
\* destinations never attempted
C11_Witness ==
    /\ WorkflowAnswered
    /\ LET stages == Val(resp.workflow).stages
           row == study_workflows[Val(call.study_id)]
       IN /\ stages.mercure.status = "success"
          /\ stages.ai_results.status = "received"
          /\ \A st \in DestStages : stages[st].status = "pending" /\ SentAt(row, st) = NULL

TrackOps == {"start", "destination", "ai_results", "job", "reset"}

\* the request lacks a field its endpoint requires
MissingField(c) ==
    \/ c.study_id = NULL
    \/ c.op = "job" /\ (c.job_id = NULL \/ c.destination = "")
    \/ c.op = "destination" /\ c.destination = ""

\* C13: a /track/* request (start, destination, ai-results, job, reset) with a
\* required field missing is answered 400 and changes nothing in the store; in
\* particular a request without study_id never returns ok.
C13_MissingFieldRejected ==
    [][call'.op \in TrackOps /\ MissingField(call')
         => resp'.code = 400 /\ UNCHANGED storeVars]_vars

\* the stage a destination name stands for, in any letter case
NamedStage(name) ==
    CASE name \in {"MERCURE", "Mercure", "mercure"} -> Some("mercure")
      [] name \in {"LPCH", "Lpch", "lpch", "LPCHROUTER", "LpchRouter", "lpchrouter"} -> Some("lpch")
      [] name \in {"LPCHT", "Lpcht", "lpcht", "LPCHTROUTER", "LpchtRouter", "lpchtrouter"} -> Some("lpcht")
      [] name \in {"MODLINK", "ModLink", "modlink"} -> Some("modlink")
      [] OTHER -> NULL

Triple(st) == {st \o "_sent_at", st \o "_send_success", st \o "_send_error"}

\* this step changed at most the columns cols (and updated_at) of the row of
\* study s, and nothing else in the store
OnlyWritten(s, cols) ==
    /\ pending_jobs' = pending_jobs
    /\ DOMAIN study_workflows' = DOMAIN study_workflows
    /\ \A k \in DOMAIN study_workflows :
          \A col \in DOMAIN study_workflows[k] :
             k # s \/ col \notin cols \cup {"updated_at"}
                => study_workflows'[k][col] = study_workflows[k][col]

\* C14: track/destination with "MERCURE" writes only the gateway-send triple; with
\* LPCH/LPCHROUTER, LPCHT/LPCHTROUTER or MODLINK in any letter case it writes only
\* that destination's triple of the named study; with any other name it answers 400
\* and changes no row.
C14_DestinationWritesItsTriple ==
    [][call'.op = "destination" =>
         LET st == NamedStage(call'.name)
             s == call'.study_id
         IN IF st = NULL
            THEN resp'.code = 400 /\ UNCHANGED storeVars
            ELSE /\ resp'.code = 200
                 /\ s # NULL => OnlyWritten(Val(s), Triple(Val(st)))
                 /\ s = NULL => UNCHANGED storeVars
                 /\ s # NULL /\ Val(s) \in DOMAIN study_workflows =>
                       LET row == study_workflows'[Val(s)]
                       IN /\ SentAt(row, Val(st)) = Some(now)
                          /\ Success(row, Val(st)) = call'.success
                          /\ Error(row, Val(st)) = call'.error]_vars

\* a mixed-case LPCHTROUTER success recorded on a study whose lpch send had failed:
\* the lpch triple is as it was
C14_Witness ==
    /\ call.op = "destination" /\ call.name = "LpchtRouter" /\ resp.code = 200
    /\ pre # NULL
    /\ LET row == study_workflows[Val(call.study_id)]
       IN /\ row.lpcht_send_success = Some(TRUE)
          /\ row.lpch_send_success = Some(FALSE) /\ row.lpch_send_error = Some("E1")
          /\ "S2" \in DOMAIN study_workflows

AiResultsTracked == call.op = "ai_results" /\ pre # NULL

\* C15: after track/ai-results for a tracked study its row has ai_results_received
\* true, ai_results_received_at set, mercure_send_success true and mercure_sent_at
\* non-null, an earlier mercure_sent_at being kept, whatever gateway-send outcome
\* (null or false) was recorded before.
C15_AiResultsMarksSent ==
    AiResultsTracked =>
        LET row == study_workflows[Val(call.study_id)]
            old == Val(pre)
        IN /\ row.ai_results_received = TRUE
           /\ row.ai_results_received_at = Some(now)
           /\ row.mercure_send_success = Some(TRUE)
           /\ row.mercure_sent_at # NULL
           /\ old.mercure_sent_at # NULL => row.mercure_sent_at = old.mercure_sent_at

\* AI results arrive at time 1 for a study whose gateway send was recorded as
\* failed at time 0
C15_Witness ==
    /\ AiResultsTracked
    /\ Val(pre).mercure_send_success = Some(FALSE)
    /\ Val(pre).mercure_sent_at = Some(0)
    /\ now = 1
    /\ study_workflows[Val(call.study_id)].mercure_sent_at = Some(0)

----------------------------------------------------------------------------
(* SpecLife: everything that writes study_workflows running together on one
   study -- the tracking calls, the poller, the enricher and the sync; events
   keep arriving for S1 while it is untracked (before its start, after a reset) *)

NextLife ==
    \/ TrackStart(Some("S1"), Some("U1"), NULL, NULL)
    \/ TrackAiResults(Some("S1"))
    \/ TrackDestination(Some("S1"), "lpch", "false", NULL)
    \/ TrackJob(Some("J1"), Some("S1"), "lpch")
    \/ TrackReset(Some("S1"))
    \/ PollLoad
    \/ \E job \in pollBatch : PollJob(job, Answer("Success", NULL, NULL))
    \/ \E job \in pollBatch : PollJob(job, Answer("404", NULL, NULL))
    \/ \E job \in pollBatch : PollAbort(job, Answer("Malformed", NULL, NULL))
    \/ PollCommit
    \/ BookkeeperReceive("X1", "U1", now, NULL, NULL)
    \/ OrthancStore("S1", "U1", NULL)
    \/ EnrichSkip
    \/ \E batch \in EnrichBatches : EnrichSelect(batch)
    \/ \E item \in enrichBatch, read \in {"ok", "fail"} : EnrichStudy(item, read)
    \/ EnrichDone
    \/ \E seen \in OrthancMaps, order \in SeriesOrders : SyncWorkflows("ok", "200", seen, order)

SpecLife == Init /\ [][NextLife]_vars

\* C16: ai_results_received is monotone: once true in a row, no tracking call, poller
\* cycle, enrichment cycle or sync run sets it back to false while the row exists.
C16_AiReceivedMonotone ==
    [][\A k \in DOMAIN study_workflows \cap DOMAIN study_workflows' :
          study_workflows[k].ai_results_received
             => study_workflows'[k].ai_results_received]_vars

\* a poller cycle has committed an outcome into a row that has AI results
C16_Witness ==
    /\ call.op = "poll_commit"
    /\ \E k \in DOMAIN study_workflows :
          /\ study_workflows[k].ai_results_received
          /\ study_workflows[k].lpch_send_success = Some(TRUE)

\* C17: a StudyWorkflow row comes into existence only through track/start or the
\* sync and disappears only through track/reset; track/destination,
\* track/ai-results, track/job, the poller and the enricher neither create a row for
\* an untracked study nor delete one.
C17_RowsFromStartOrSyncUntilReset ==
    [][/\ DOMAIN study_workflows' \ DOMAIN study_workflows # {}
            => call'.op \in {"start", "sync"}
       /\ DOMAIN study_workflows \ DOMAIN study_workflows' # {}
            => call'.op = "reset"]_vars

\* AI results have been reported for a study that is not tracked: the call was
\* answered ok and there is still no row
C17_Witness ==
    /\ call.op = "ai_results" /\ resp.code = 200
    /\ pre = NULL
    /\ Val(call.study_id) \notin DOMAIN study_workflows
    /\ pending_jobs # EmptyTable

\* the studies of the answered request's window by what their existence check gave
InWindow == {k \in DOMAIN study_workflows : Val(study_workflows[k].created_at) > now - call.hours}
CheckFaulted(k) == call.fault # "none" /\ k \in call.failing
Answered404 == {k \in InWindow : ~CheckFaulted(k) /\ k \notin DOMAIN orthanc}
Answered200 == {k \in InWindow : ~CheckFaulted(k) /\ k \in DOMAIN orthanc}
CheckRaised == {k \in InWindow : CheckFaulted(k) /\ call.fault = "error"}

\* n counts the studies with property Has (a set of study_ids): none answered 404,
\* all those answered 200 or whose check raised
CountsOf(n, Has) ==
    /\ n <= Cardinality((InWindow \ Answered404) \cap Has)
    /\ n >= Cardinality((Answered200 \cup CheckRaised) \cap Has)

\* C18: in the funnel a study of the window whose existence check answers 404 is
\* excluded from every count, and a study whose check fails with a transport error
\* or timeout is included in the counts.
C18_FunnelFailsOpen ==
    FunnelAnswered =>
        LET T == study_workflows
            has(col) == {k \in InWindow : T[k][col] # NULL}
            f == Val(resp.funnel)
        IN /\ CountsOf(f.total_studies, InWindow)
           /\ CountsOf(Entry("Studies in Orthanc").count, InWindow)
           /\ CountsOf(Entry("Sent to Mercure").count, has("mercure_sent_at"))
           /\ CountsOf(Entry("Received at Mercure").count, has("mercure_received_at"))
           /\ CountsOf(Entry("AI Results Back to Orthanc").count,
                       {k \in InWindow : T[k].ai_results_received})
           /\ CountsOf(Entry("Routed to Destinations").count,
                       {k \in InWindow : /\ T[k].ai_results_received
                                         /\ \A st \in DestStages : Success(T[k], st) = Some(TRUE)})
           /\ CountsOf(f.summary.drop_off.mercure_send,
                       {k \in InWindow : T[k].mercure_send_success = Some(FALSE)})

\* one request in which the check of S1 raised and the check of S2 answered 404,
\* both studies having AI results: S1 is counted, S2 is not
C18_Witness ==
    /\ FunnelAnswered
    /\ call.fault = "error" /\ call.failing = {IdOf(1)}
    /\ IdOf(1) \in CheckRaised /\ IdOf(2) \in Answered404
    /\ study_workflows[IdOf(1)].ai_results_received
    /\ study_workflows[IdOf(2)].ai_results_received
    /\ Val(resp.funnel).total_studies = Cardinality(InWindow) - 1
    /\ Entry("AI Results Back to Orthanc").count =
          Cardinality({k \in InWindow \ {IdOf(2)} : study_workflows[k].ai_results_received})

\* the step ends a poller cycle
CycleEnds == pollPc = "iter" /\ pollPc' = "sleep"

\* the stage a job's destination name stands for
JobStage(destination) ==
    CASE destination \in {"MERCURE"} -> Some("mercure")
      [] destination \in {"LPCH", "LPCHROUTER"} -> Some("lpch")
      [] destination \in {"LPCHT", "LPCHTROUTER"} -> Some("lpcht")
      [] destination \in {"MODLINK"} -> Some("modlink")
      [] OTHER -> NULL

\* the outcome a Success or Failure answer stands for: success and error message
Outcome(c) ==
    IF c.answer = "Success" THEN <<Some(TRUE), NULL>>
    ELSE <<Some(FALSE), IF c.error # NULL THEN c.error
                        ELSE IF c.error_code # NULL THEN c.error_code
                        ELSE Some("Unknown error")>>

\* the poller has just observed Success or Failure for a job with a known destination
TerminalObserved(c) ==
    c.op = "poll_job" /\ c.answer \in {"Success", "Failure"} /\ JobStage(c.destination) # NULL

\* C19: when the poller observes Success for a job with a known destination it sets
\* that destination's success = true, error = null and sent_at to now only if it was
\* null; Failure sets success = false and error to ErrorDescription, else ErrorCode,
\* else 'Unknown error'; only that triple of the job's study is written, and the
\* PendingJob is deleted.  The first conjunct is the observation inside the cycle,
\* the second its outcome when the cycle ends right after it.
C19_TerminalOutcomeRecorded ==
    [][/\ TerminalObserved(call') /\ pre' # NULL =>
             LET s == Val(call'.study_id)
                 st == Val(JobStage(call'.destination))
                 old == Val(pre')
                 row == pollRows'[s]
             IN /\ Success(row, st) = Outcome(call')[1]
                /\ Error(row, st) = Outcome(call')[2]
                /\ SentAt(row, st) = IF SentAt(old, st) # NULL THEN SentAt(old, st) ELSE Some(now)
                /\ \A col \in DOMAIN row :
                      col \notin Triple(st) \cup {"updated_at"} => row[col] = old[col]
                /\ \A k \in DOMAIN pollRows' \ {s} : k \in DOMAIN pollRows /\ pollRows'[k] = pollRows[k]
                /\ Val(call'.job_id) \in pollDels' \/ Val(call'.job_id) \notin DOMAIN pending_jobs
       /\ TerminalObserved(call) /\ CycleEnds =>
             LET s == Val(call.study_id)
                 st == Val(JobStage(call.destination))
             IN /\ Val(call.job_id) \notin DOMAIN pending_jobs'
                /\ s \in DOMAIN study_workflows' =>
                      /\ Success(study_workflows'[s], st) = Outcome(call)[1]
                      /\ Error(study_workflows'[s], st) = Outcome(call)[2]]_vars

\* C20: when the endpoint answers 404 for a PendingJob the poller deletes the
\* PendingJob and changes no field of any StudyWorkflow row; the destination's
\* success keeps its value, a null (pending) one stays null.
C20_NotFoundOnlyDeletesJob ==
    [][/\ call'.op = "poll_job" /\ call'.answer = "404" =>
             /\ pollRows' = pollRows
             /\ study_workflows' = study_workflows
             /\ Val(call'.job_id) \in pollDels' \/ Val(call'.job_id) \notin DOMAIN pending_jobs
       /\ call.op = "poll_job" /\ call.answer = "404" /\ CycleEnds =>
             /\ Val(call.job_id) \notin DOMAIN pending_jobs'
             /\ pollRows = EmptyTable => study_workflows' = study_workflows]_vars

----------------------------------------------------------------------------
(* SpecRetry: the poller with answers that leave a job pending -- the states
   Running, Pending and Paused, an unknown state string, a transport error or
   timeout -- next to Success and an aborting answer, for two jobs of one study *)

RetryKinds == {"Running", "Pending", "Paused", "Other", "Error"}

NextRetry ==
    \/ TrackStart(Some("S1"), NULL, NULL, NULL)
    \/ TrackJob(Some("J1"), Some("S1"), "lpch")
    \/ TrackJob(Some("J2"), Some("S1"), "lpcht")
    \/ TrackReset(Some("S1"))
    \/ PollLoad
    \/ \E job \in pollBatch, kind \in RetryKinds \cup {"Success"} :
          PollJob(job, Answer(kind, NULL, NULL))
    \/ \E job \in pollBatch : PollAbort(job, Answer("Malformed", NULL, NULL))
    \/ PollCommit
    \/ Tick

SpecRetry == Init /\ [][NextRetry]_vars

\* C21: a poll that yields Running, Pending or Paused, an unknown state string, or a
\* transport/timeout error is a no-op for that job: nothing is written or deleted
\* for it, the end of the cycle removes only jobs the cycle resolved and changes only
\* rows the cycle wrote, and the next cycle loads every job still registered.
C21_UnresolvedJobStays ==
    [][/\ call'.op = "poll_job" /\ call'.answer \in RetryKinds =>
             /\ pollRows' = pollRows /\ pollDels' = pollDels
             /\ pollResolved' = pollResolved
             /\ UNCHANGED storeVars
       /\ CycleEnds =>
             /\ DOMAIN pending_jobs \ DOMAIN pending_jobs' \subseteq pollResolved
             /\ \A j \in DOMAIN pending_jobs \cap DOMAIN pending_jobs' :
                   pending_jobs'[j] = pending_jobs[j]
             /\ \A k \in DOMAIN study_workflows \ DOMAIN pollRows :
                   k \in DOMAIN study_workflows' /\ study_workflows'[k] = study_workflows[k]
       /\ call'.op = "poll_load" =>
             {job.job_id : job \in pollBatch'} = DOMAIN pending_jobs]_vars

\* the last job of a cycle's batch, J1, has just been answered with a transport
\* error after J2 was resolved in the same cycle: J1 is still registered, nothing
\* is written or deleted for it
C21_Witness ==
    /\ call.op = "poll_job" /\ call.answer = "Error" /\ call.job_id = Some("J1")
    /\ pollBatch = {}
    /\ pollResolved = {"J2"} /\ pollDels = {"J2"}
    /\ "J1" \in DOMAIN pending_jobs
    /\ pre # NULL
    /\ PollView("S1") # NULL /\ Val(PollView("S1")).lpch_send_success = NULL

\* C22: the outcome writes and the PendingJob deletions of one poll cycle are
\* committed together: while the cycle runs the committed store shows neither, a
\* resolved job's deletion and its outcome are both held by the transaction, the
\* commit applies both in one step, and an aborted cycle leaves none of them.
C22_CycleCommitsTogether ==
    [][/\ call'.op \in {"poll_load", "poll_job", "poll_abort"} => UNCHANGED storeVars
       /\ pollPc' = "iter" =>
             /\ pollDels' \subseteq DOMAIN pending_jobs'
             /\ DOMAIN pollRows' \subseteq DOMAIN study_workflows'
       /\ TerminalObserved(call') /\ pre' # NULL => Val(call'.study_id) \in DOMAIN pollRows'
       /\ call'.op = "poll_job" /\ call'.answer \in {"Success", "Failure", "404"}
             /\ Val(call'.job_id) \in DOMAIN pending_jobs' => Val(call'.job_id) \in pollDels'
       /\ call'.op = "poll_abort" => pollRows' = EmptyTable /\ pollDels' = {}
       /\ call'.op = "poll_commit" =>
             /\ DOMAIN pending_jobs' = DOMAIN pending_jobs \ pollDels
             /\ \A k \in DOMAIN pollRows : study_workflows'[k] = pollRows[k]
             /\ pollRows' = EmptyTable /\ pollDels' = {}]_vars

\* a cycle has committed the Success of J1 and the Failure of J2: both jobs are
\* gone and the row shows the later outcome
C22_Witness ==
    /\ call.op = "poll_commit"
    /\ pollResolved = {"J1", "J2"}
    /\ pending_jobs = EmptyTable
    /\ "S1" \in DOMAIN study_workflows
    /\ study_workflows["S1"].lpch_send_success # NULL


-----------------------------------------------------------------------------
(* SpecFairPoll: two jobs of one study are registered; the endpoint of J1 is
   reachable and answers Success, Failure or 404 whenever it is asked, J2 is
   still running or its answer is a JSON body that is not an object.  The
   poller thread loops forever (a cycle, then time.sleep(POLL_INTERVAL)), so a
   step of it that stays enabled is eventually taken: weak fairness of its
   step. *)

PollerStep ==
    \/ PollLoad
    \/ \E job \in pollBatch, kind \in TerminalKinds :
          job.job_id = "J1" /\ PollJob(job, Answer(kind, NULL, NULL))
    \/ \E job \in pollBatch : job.job_id = "J2" /\ PollJob(job, Answer("Running", NULL, NULL))
    \/ \E job \in pollBatch : job.job_id = "J2" /\ PollAbort(job, Answer("Malformed", NULL, NULL))
    \/ PollCommit

NextFairPoll ==
    \/ TrackStart(Some("S1"), NULL, NULL, NULL)
    \/ TrackJob(Some("J1"), Some("S1"), "lpch")
    \/ TrackJob(Some("J2"), Some("S1"), "lpcht")
    \/ PollerStep

SpecFairPoll == Init /\ [][NextFairPoll]_vars /\ WF_vars(PollerStep)

\* C39: with fair poll cycles, a pending job whose endpoint is reachable and
\* answers Success, Failure or 404 from some point on is eventually deleted,
\* whatever the other jobs of its batches answer
C39_TerminalJobsResolved ==
    ("J1" \in DOMAIN pending_jobs) ~> ("J1" \notin DOMAIN pending_jobs)

----------------------------------------------------------------------------
(* SpecLoops: the two background loops under fair scheduling.  A thread that
   can take its next step takes it: time.sleep returns, every request to
   Orthanc or Bookkeeper ends (with an answer, an error or its timeout), and a
   statement waiting for a row lock gets it once the holder has ended its
   transaction.  The loops meet every kind of failure: a transport error and
   a malformed answer in the poller, a failed read and an unconfigured or
   unreachable Bookkeeper in the enricher. *)

PollStep ==
    \/ \E job \in pollBatch, kind \in {"Success", "Error"} : PollJob(job, Answer(kind, NULL, NULL))
    \/ \E job \in pollBatch : PollAbort(job, Answer("Malformed", NULL, NULL))

EnrichStart == EnrichSkip \/ \E batch \in EnrichBatches : EnrichSelect(batch)

EnrichStep == \E item \in enrichBatch, read \in {"ok", "fail"} : EnrichStudy(item, read)

NextLoops ==
    \/ TrackStart(Some("S1"), Some("U1"), NULL, NULL)
    \/ TrackMercureSent(Some("S1"), "true", NULL)
    \/ \E j \in JobIds : TrackJob(Some(j), Some("S1"), "lpch")
    \/ TrackReset(Some("S1"))
    \/ PollLoad
    \/ PollStep
    \/ PollCommit
    \/ EnrichStart
    \/ EnrichStep
    \/ EnrichDone

Fairness ==
    /\ WF_vars(PollLoad) /\ WF_vars(PollStep) /\ WF_vars(PollCommit)
    /\ WF_vars(EnrichStart) /\ WF_vars(EnrichStep) /\ WF_vars(EnrichDone)

SpecLoops == Init /\ [][NextLoops]_vars /\ Fairness

\* each loop sleeps again and again and starts a cycle again and again
LoopsGoOn ==
    /\ []<>(pollPc = "sleep") /\ []<>(pollPc = "iter")
    /\ []<>(enrichPc = "sleep") /\ []<>(call.op \in {"enrich_skip", "enrich_select"})

\* a cycle ends only when every item of its batch has been processed, the item
\* that failed apart
CyclesFinishBatch ==
    [][/\ pollPc = "iter" /\ pollPc' = "sleep" =>
             \A job \in pollBatch : call'.op = "poll_abort" /\ call'.job_id = Some(job.job_id)
       /\ enrichPc = "iter" /\ enrichPc' = "sleep" => enrichBatch = {}]_vars

\* C23: neither background loop is terminated by an error: after any failure in a
\* cycle the loop reaches its sleep and starts another cycle, so each loop performs
\* infinitely many cycles, and a failure on one item of a cycle does not stop the
\* loop from processing the remaining items of that cycle.
C23_LoopsSurviveErrors == LoopsGoOn /\ CyclesFinishBatch

----------------------------------------------------------------------------
(* SpecAlias: jobs registered under every spelling of the destination names --
   upper, lower and mixed case, with and without ROUTER, and a name that is no
   destination -- and resolved by the poller *)

NextAlias ==
    \/ TrackStart(Some("S1"), NULL, NULL, NULL)
    \/ \E d \in {"Lpch", "LPCHROUTER", "foo"} : TrackJob(Some("J1"), Some("S1"), d)
    \/ \E d \in {"LPCHT", "LpchtRouter"} : TrackJob(Some("J2"), Some("S1"), d)
    \/ PollLoad
    \/ \E job \in pollBatch, kind \in {"Success", "Failure"} :
          PollJob(job, Answer(kind, NULL, NULL))
    \/ PollCommit

SpecAlias == Init /\ [][NextAlias]_vars

\* C24: in the poller destination names are matched whatever their letter case, and
\* the aliases of a destination (LPCH and LPCHROUTER, LPCHT and LPCHTROUTER) update
\* the same column family; a job whose destination name is unknown changes no
\* StudyWorkflow row and does not end the cycle.
C24_PollerMatchesNames ==
    [][/\ call'.op = "job" /\ resp'.code = 200 =>
             JobStage(pending_jobs'[Val(call'.job_id)].destination) = NamedStage(call'.name)
       /\ call'.op = "poll_job" /\ call'.answer \in {"Success", "Failure"} =>
             LET st == JobStage(call'.destination)
                 s == Val(call'.study_id)
             IN /\ UNCHANGED study_workflows
                /\ pollPc' = "iter"
                /\ \A k \in DOMAIN pollRows' \ {s} : k \in DOMAIN pollRows /\ pollRows'[k] = pollRows[k]
                /\ IF st = NULL \/ pre' = NULL
                   THEN pollRows' = pollRows
                   ELSE /\ s \in DOMAIN pollRows'
                        /\ Success(pollRows'[s], Val(st)) = Outcome(call')[1]
                        /\ \A col \in DOMAIN pollRows'[s] :
                              col \notin Triple(Val(st)) \cup {"updated_at"}
                                 => pollRows'[s][col] = Val(pre')[col]]_vars

\* a cycle has committed the failure of a job registered for the lpch family and
\* the success of one registered for the lpcht family
C24_Witness ==
    /\ pollResolved = {"J1", "J2"}
    /\ "S1" \in DOMAIN study_workflows
    /\ study_workflows["S1"].lpch_send_success = Some(FALSE)
    /\ study_workflows["S1"].lpcht_send_success = Some(TRUE)
    /\ study_workflows["S1"].modlink_send_success = NULL
    /\ study_workflows["S1"].mercure_send_success = NULL
    /\ call.op = "poll_commit"

\* C25: a stage's sent_at is a first-observed timestamp: once it is non-null in a
\* row, no later write to that stage (poller resolution, track/destination,
\* track/mercure-sent, track/ai-results) changes it while the row exists.
C25_SentAtFirstObserved ==
    [][\A k \in DOMAIN study_workflows \cap DOMAIN study_workflows' : \A st \in Stages :
          SentAt(study_workflows[k], st) # NULL
             => SentAt(study_workflows'[k], st) = SentAt(study_workflows[k], st)]_vars

-----------------------------------------------------------------------------
(* SpecBatch: the enricher over a store in which two studies were started and
   sent to the gateway, so that every batch holds both of them; the analytics
   database holds a series of the first study from the start. *)

SentRow(uid) ==
    [NewRow(Some(uid), NULL, NULL, 0) EXCEPT
        !.mercure_sent_at = Some(0), !.mercure_send_success = Some(TRUE)]

InitBatch ==
    /\ study_workflows = [k \in {"S1", "S2"} |-> SentRow(IF k = "S1" THEN "U1" ELSE "U2")]
    /\ pending_jobs = EmptyTable
    /\ now = 0
    /\ bk_series = Put(EmptyTable, "X1", [study_uid |-> "U1", time |-> 0, tag_patientname |-> NULL,
                                           tag_studydescription |-> NULL])
    /\ bk_tasks = [u \in Uids |-> NULL]
    /\ bk_events = <<>>
    /\ bk_data = <<>>
    /\ orthanc = EmptyTable
    /\ pollPc = "sleep"
    /\ pollBatch = {}
    /\ pollRows = EmptyTable
    /\ pollDels = {}
    /\ pollResolved = {}
    /\ enrichPc = "sleep"
    /\ enrichBatch = {}
    /\ call = NoCall
    /\ resp = NoResp
    /\ pre = NULL
    /\ SyncIdle
    /\ Running

NextBatch ==
    \/ \E t \in Times : BookkeeperReceive("X2", "U2", t, NULL, NULL)
    \/ EnrichSkip
    \/ \E batch \in EnrichBatches : EnrichSelect(batch)
    \/ \E item \in enrichBatch, read \in {"ok", "fail"} : EnrichStudy(item, read)
    \/ EnrichDone
    \/ Tick

SpecBatch == InitBatch /\ [][NextBatch]_vars

\* C26: a study whose analytics-database read fails keeps its row and is still
\* a candidate, so the next selection takes it again; the failure removes only
\* that study from the batch, the cycle ends only when every study of the
\* batch was handled, and a study whose read succeeds has its row updated with
\* what was read
C26_ReadFailureSkipsOneStudy ==
    [][/\ call'.op = "enrich_fail" =>
             /\ UNCHANGED study_workflows
             /\ Val(call'.study_id) \in EnrichCandidates'
             /\ enrichPc' = "iter"
             /\ \E item \in enrichBatch :
                   /\ item.study_id = Val(call'.study_id)
                   /\ enrichBatch' = enrichBatch \ {item}
       /\ call'.op = "enrich_select" => {item.study_id : item \in enrichBatch'} = EnrichCandidates
       /\ call'.op = "enrich_done" => enrichBatch = {}
       /\ call'.op = "enrich_update" =>
             \A k \in DOMAIN study_workflows :
                study_workflows'[k] =
                   IF k = Val(call'.study_id)
                   THEN [study_workflows[k] EXCEPT
                           !.mercure_received_at =
                               IF study_workflows[k].mercure_received_at # NULL
                               THEN study_workflows[k].mercure_received_at
                               ELSE BookkeeperReceivedAt(Val(call'.study_instance_uid)),
                           !.updated_at = Some(now)]
                   ELSE study_workflows[k]]_vars

\* S2 was just updated as the last study of a batch in which the read of S1
\* had failed: the analytics database holds a series of each, S1's row is as
\* it was, S2's row carries the time that was read
C26_Witness ==
    /\ call.op = "enrich_update"
    /\ call.study_id = Some("S2")
    /\ enrichBatch = {}
    /\ enrichPc = "iter"
    /\ BookkeeperReceivedAt("U1") # NULL
    /\ study_workflows["S1"] = SentRow("U1")
    /\ study_workflows["S2"].mercure_received_at # NULL
    /\ "S1" \in EnrichCandidates

-----------------------------------------------------------------------------
(* SpecLimit: the enricher over a store with more candidates than one batch
   takes.  Studies 1..EnrichLimit were started with a UID and sent, the next
   one was sent without a UID, the last one was started and not yet sent. *)

LimitRange == 1..(EnrichLimit + 2)
NoUidId == IdOf(EnrichLimit + 1)
UnsentId == IdOf(EnrichLimit + 2)
UidOf(i) == "U" \o ToString(i)
UnsentUid == UidOf(EnrichLimit + 2)

LimitRow(i) ==
    IF i <= EnrichLimit THEN SentRow(UidOf(i))
    ELSE IF i = EnrichLimit + 1 THEN [SentRow(UidOf(i)) EXCEPT !.study_instance_uid = NULL]
    ELSE NewRow(Some(UidOf(i)), NULL, NULL, 0)

SeriesOf(uid) ==
    [study_uid |-> uid, time |-> 0, tag_patientname |-> NULL, tag_studydescription |-> NULL]

InitLimit ==
    /\ study_workflows = [k \in {IdOf(i) : i \in LimitRange} |->
                            LimitRow(CHOOSE i \in LimitRange : IdOf(i) = k)]
    /\ pending_jobs = EmptyTable
    /\ now = 0
    /\ bk_series = [x \in SeriesIds |-> SeriesOf(IF x = "X1" THEN "U1" ELSE UnsentUid)]
    /\ bk_tasks = [u \in Uids |-> NULL]
    /\ bk_events = <<>>
    /\ bk_data = <<>>
    /\ orthanc = EmptyTable
    /\ pollPc = "sleep"
    /\ pollBatch = {}
    /\ pollRows = EmptyTable
    /\ pollDels = {}
    /\ pollResolved = {}
    /\ enrichPc = "sleep"
    /\ enrichBatch = {}
    /\ call = NoCall
    /\ resp = NoResp
    /\ pre = NULL
    /\ SyncIdle
    /\ Running

\* the rows the SELECT may leave out
LeftOut == SUBSET {"S1", NoUidId, UnsentId}

\* "for study in pending_studies" takes the fetched rows in order
NumOf(study_id) == CHOOSE i \in LimitRange : IdOf(i) = study_id
FirstOf(batch) == CHOOSE item \in batch : \A o \in batch : NumOf(item.study_id) <= NumOf(o.study_id)

NextLimit ==
    \/ \E u \in Opt({"U1"}) : TrackStart(Some("S1"), u, NULL, NULL)
    \/ TrackReset(Some("S1"))
    \/ TrackMercureSent(Some(UnsentId), "true", NULL)
    \/ EnrichSkip
    \/ \E out \in LeftOut : EnrichSelect(EnrichCandidates \ out)
    \/ \E read \in {"ok", "fail"} : enrichBatch # {} /\ EnrichStudy(FirstOf(enrichBatch), read)
    \/ EnrichDone

SpecLimit == InitLimit /\ [][NextLimit]_vars

EnricherOps == {"enrich_skip", "enrich_select", "enrich_nouid", "enrich_fail", "enrich_update", "enrich_done"}

-----------------------------------------------------------------------------
(* SpecFairEnrich: the store of SpecLimit with the analytics database always
   reachable.  The enricher thread loops forever (a cycle, then time.sleep(30)),
   so a step of it that stays enabled is eventually taken: weak fairness of
   its step.  Which rows a cycle's LIMIT leaves out is the database's choice
   at every cycle. *)

EnricherStep ==
    \/ \E out \in LeftOut : EnrichSelect(EnrichCandidates \ out)
    \/ enrichBatch # {} /\ \E item \in {FirstOf(enrichBatch)} : EnrichStudy(item, "ok")
    \/ EnrichDone

NextFairEnrich ==
    \/ TrackMercureSent(Some(UnsentId), "true", NULL)
    \/ EnricherStep

SpecFairEnrich == InitLimit /\ [][NextFairEnrich]_vars /\ WF_vars(EnricherStep)

\* the row of k was sent, has a UID, and the analytics database holds a series
\* of that UID
Enrichable(k) ==
    /\ k \in DOMAIN study_workflows
    /\ study_workflows[k].mercure_sent_at # NULL
    /\ study_workflows[k].study_instance_uid # NULL
    /\ BookkeeperReceivedAt(Val(study_workflows[k].study_instance_uid)) # NULL

\* C34: with fair enrichment cycles and the analytics database reachable, a row
\* that was sent, has a UID and has a matching series record eventually has
\* mercure_received_at set, however many other candidates the store holds
C34_EnrichmentProgress ==
    \A k \in {"S1", UnsentId} :
        Enrichable(k) ~> (k \in DOMAIN study_workflows /\ study_workflows[k].mercure_received_at # NULL)

-----------------------------------------------------------------------------
(* POST /workflows/sync step by step: the run's transaction on study_workflows
   stays open from its first SELECT to workflow_conn.commit(), other requests
   are served in between.  Bookkeeper and Orthanc are read at the start. *)

\* study_workflows as the run's transaction sees it: the committed rows and its own
SyncView ==
    [k \in DOMAIN study_workflows \cup DOMAIN syncRows |->
        IF k \in DOMAIN syncRows THEN syncRows[k] ELSE study_workflows[k]]

SyncCall(op) ==
    [NoCall EXCEPT !.op = op, !.seen = syncSeen, !.tracked = DOMAIN syncRows,
        !.study_id = IF syncTodo # <<>> /\ bk_series[Head(syncTodo)].study_uid \in DOMAIN syncSeen
                     THEN Some(syncSeen[bk_series[Head(syncTodo)].study_uid]) ELSE NULL]

SyncReset ==
    /\ syncPc' = "idle"
    /\ syncTodo' = <<>>
    /\ syncSeen' = <<>>
    /\ syncRows' = EmptyTable
    /\ syncCount' = 0

\* get_bookkeeper_db(), get_db(), the Bookkeeper query and the Orthanc listing
SyncBegin(bk, listing, seen, order) ==
    /\ syncPc = "idle"
    /\ seen \in OrthancMaps
    /\ order \in SeriesOrders
    /\ listing # "200" => seen = <<>>
    /\ call' = [NoCall EXCEPT !.op = "sync_begin", !.answer = listing, !.fault = bk, !.seen = seen]
    /\ pre' = NULL
    /\ IF bk = "none" \/ listing = "error"
       THEN /\ resp' = [NoResp EXCEPT !.code = 503]
            /\ UNCHANGED syncVars
       ELSE /\ resp' = NoResp
            /\ syncPc' = "check"
            /\ syncTodo' = order
            /\ syncSeen' = seen
            /\ syncRows' = EmptyTable
            /\ syncCount' = 0
    /\ UNCHANGED <<storeVars, now, extVars, pollVars, enrichVars, startVars>>

\* one series_record up to "if workflow_cur.fetchone()"
SyncCheck ==
    /\ syncPc = "check"
    /\ syncTodo # <<>>
    /\ call' = SyncCall("sync_check")
    /\ resp' = NoResp
    /\ pre' = NULL
    /\ LET study_uid == bk_series[Head(syncTodo)].study_uid
       IN IF study_uid \notin DOMAIN syncSeen \/ SyncTracked(SyncView, syncSeen[study_uid])
          THEN /\ syncTodo' = Tail(syncTodo)
               /\ UNCHANGED syncPc
          ELSE /\ syncPc' = "insert"
               /\ UNCHANGED syncTodo
    /\ UNCHANGED <<storeVars, now, extVars, pollVars, enrichVars, startVars,
                   syncSeen, syncRows, syncCount>>

\* the INSERT of that record, synced_count += 1
SyncRecord ==
    /\ syncPc = "insert"
    /\ LET record == bk_series[Head(syncTodo)]
           study_id == syncSeen[record.study_uid]
           done == SyncInsert(SyncView, study_id, SyncNewRow(orthanc[study_id], record, now))
       IN syncRows' = [k \in {x \in DOMAIN done : \/ x \notin DOMAIN study_workflows
                                                    \/ done[x] # study_workflows[x]} |-> done[k]]
    /\ syncCount' = syncCount + 1
    /\ syncTodo' = Tail(syncTodo)
    /\ syncPc' = "check"
    /\ call' = SyncCall("sync_insert")
    /\ resp' = NoResp
    /\ pre' = NULL
    /\ UNCHANGED <<storeVars, now, extVars, pollVars, enrichVars, startVars, syncSeen>>

\* a statement of the loop or the commit raises: "except Exception", 500
SyncFail ==
    /\ syncPc \in {"check", "insert"}
    /\ study_workflows' = SyncAbandon(study_workflows, syncRows)
    /\ SyncReset
    /\ call' = SyncCall("sync_fail")
    /\ resp' = [NoResp EXCEPT !.code = 500]
    /\ pre' = NULL
    /\ UNCHANGED <<pending_jobs, now, extVars, pollVars, enrichVars, startVars>>

\* workflow_conn.commit() after the loop, 200 with synced_count
SyncCommit ==
    /\ syncPc = "check"
    /\ syncTodo = <<>>
    /\ study_workflows' = SyncView
    /\ SyncReset
    /\ call' = SyncCall("sync_commit")
    /\ resp' = [Ok EXCEPT !.synced = syncCount]
    /\ pre' = NULL
    /\ UNCHANGED <<pending_jobs, now, extVars, pollVars, enrichVars, startVars>>

(* SpecRun: sync runs over two studies that Mercure and Orthanc both hold,
   while the studies are started, marked and reset by the tracking API *)

InitRun ==
    /\ study_workflows = EmptyTable
    /\ pending_jobs = EmptyTable
    /\ now = 0
    /\ bk_series = [x \in SeriesIds |-> SeriesOf(IF x = "X1" THEN "U1" ELSE "U2")]
    /\ bk_tasks = [u \in Uids |-> NULL]
    /\ bk_events = <<>>
    /\ bk_data = <<>>
    /\ orthanc = [k \in StudyIds |-> [StudyInstanceUID |-> IF k = "S1" THEN "U1" ELSE "U2",
                                      PatientName |-> NULL]]
    /\ pollPc = "sleep"
    /\ pollBatch = {}
    /\ pollRows = EmptyTable
    /\ pollDels = {}
    /\ pollResolved = {}
    /\ enrichPc = "sleep"
    /\ enrichBatch = {}
    /\ call = NoCall
    /\ resp = NoResp
    /\ pre = NULL
    /\ SyncIdle
    /\ Running

NextRun ==
    \/ \E s \in StudyIds : TrackStart(Some(s), NULL, NULL, NULL)
    \/ TrackAiResults(Some("S1"))
    \/ \E s \in StudyIds : TrackReset(Some(s))
    \/ \E bk \in {"ok", "none"}, listing \in {"200", "500", "error"},
          seen \in OrthancMaps, order \in SeriesOrders : SyncBegin(bk, listing, seen, order)
    \/ SyncCheck
    \/ SyncRecord
    \/ SyncFail
    \/ SyncCommit
    \/ Tick

SpecRun == InitRun /\ [][NextRun]_vars

SyncOps == {"sync_begin", "sync_check", "sync_insert", "sync_fail", "sync_commit"}

Triples ==
    {"lpch_sent_at", "lpch_send_success", "lpch_send_error",
     "lpcht_sent_at", "lpcht_send_success", "lpcht_send_error",
     "modlink_sent_at", "modlink_send_success", "modlink_send_error"}

\* C28: the run inserts a row only for a record whose study UID Orthanc holds
\* and whose study_id has no row at the INSERT; the inserted row has
\* mercure_send_success and ai_results_received true and the three destination
\* triples null; no step of a run changes or removes a row that is in the
\* store, whatever track/start did in between
C28_SyncInsertsOnlyNew ==
    [][call'.op \in SyncOps =>
         /\ \A k \in DOMAIN study_workflows :
               k \in DOMAIN study_workflows' /\ study_workflows'[k] = study_workflows[k]
         /\ \A k \in DOMAIN syncRows' \ DOMAIN syncRows :
               /\ call'.op = "sync_insert"
               /\ call'.study_id = Some(k)
               /\ k \notin DOMAIN study_workflows
               /\ k \in DOMAIN orthanc
               /\ syncRows'[k].study_instance_uid = Some(orthanc[k].StudyInstanceUID)
               /\ syncRows'[k].mercure_send_success = Some(TRUE)
               /\ syncRows'[k].ai_results_received = TRUE
               /\ \A f \in Triples : syncRows'[k][f] = NULL
         /\ \A k \in DOMAIN syncRows \cap DOMAIN syncRows' : syncRows'[k] = syncRows[k]
         /\ \A k \in DOMAIN syncRows' : k \notin DOMAIN study_workflows
         /\ \A k \in DOMAIN study_workflows' \ DOMAIN study_workflows :
               /\ call'.op = "sync_commit"
               /\ k \in DOMAIN syncRows
               /\ study_workflows'[k] = syncRows[k]]_vars

\* the run has inserted S1 and found no row of S2, track/start then created
\* one, and the run's INSERT for S2 left that row as track/start wrote it
C28_Witness ==
    /\ call.op = "sync_insert"
    /\ call.study_id = Some("S2")
    /\ "S2" \in DOMAIN study_workflows
    /\ "S2" \notin DOMAIN syncRows
    /\ study_workflows["S2"].mercure_send_success = NULL
    /\ ~study_workflows["S2"].ai_results_received
    /\ "S1" \in DOMAIN syncRows

\* C29: no step of a run before its commit changes the store; a run that ends
\* with 500 or 503 leaves the store as it was and keeps none of its rows; the
\* commit adds every row of the run in one step, and the answer counts the
\* records inserted
C29_SyncAllOrNothing ==
    [][call'.op \in SyncOps =>
         /\ call'.op # "sync_commit" => UNCHANGED study_workflows
         /\ resp'.code \in {500, 503} => UNCHANGED study_workflows /\ syncRows' = EmptyTable /\ syncPc' = "idle"
         /\ call'.op = "sync_commit" =>
               /\ resp'.code = 200
               /\ DOMAIN study_workflows' = DOMAIN study_workflows \cup DOMAIN syncRows
               /\ \A k \in DOMAIN syncRows : study_workflows'[k] = syncRows[k]
               /\ syncRows' = EmptyTable
               /\ Cardinality(DOMAIN syncRows) <= resp'.synced]_vars

\* a run that had inserted the row of S1 failed with 500: the store holds no
\* row of S1
C29_Witness ==
    /\ call.op = "sync_fail"
    /\ resp.code = 500
    /\ "S1" \in call.tracked
    /\ "S1" \notin DOMAIN study_workflows
    /\ syncRows = EmptyTable

-----------------------------------------------------------------------------
(* GET /mercure/study/<study_uid>: the "processing" object of the answer.  An
   event type is the sequence of its characters. *)

MaxEvents == 3

\* str.lower() on the letters that occur
Lower(ch) ==
    CASE ch = "A" -> "a"
      [] ch = "C" -> "c"
      [] ch = "D" -> "d"
      [] ch = "E" -> "e"
      [] ch = "F" -> "f"
      [] ch = "G" -> "g"
      [] ch = "H" -> "h"
      [] ch = "I" -> "i"
      [] ch = "L" -> "l"
      [] ch = "M" -> "m"
      [] ch = "O" -> "o"
      [] ch = "P" -> "p"
      [] ch = "R" -> "r"
      [] ch = "S" -> "s"
      [] ch = "T" -> "t"
      [] ch = "V" -> "v"
      [] OTHER -> ch

LowerStr(s) == [i \in DOMAIN s |-> Lower(s[i])]

\* sub in s
Contains(s, sub) ==
    \E i \in 0..(Len(s) - Len(sub)) : SubSeq(s, i + 1, i + Len(sub)) = sub

KwReceived == <<"r", "e", "c", "e", "i", "v", "e", "d">>
KwComplete == <<"c", "o", "m", "p", "l", "e", "t", "e">>
KwDispatch == <<"d", "i", "s", "p", "a", "t", "c", "h">>
KwError == <<"e", "r", "r", "o", "r">>
KwFail == <<"f", "a", "i", "l">>

\* event types the Bookkeeper may hold
EventTypes ==
    { <<"R", "e", "c", "e", "i", "v", "e", "d">>,
      <<"P", "R", "O", "C", "E", "S", "S", "_", "C", "O", "M", "P", "L", "E", "T", "E">>,
      <<"E", "R", "R", "O", "R">>,
      <<"F", "a", "i", "l", "e", "d">>,
      <<"R", "E", "G", "I", "S", "T", "E", "R">>,
      <<"D", "I", "S", "P", "A", "T", "C", "H", "_", "R", "E", "C", "E", "I", "V", "E", "D">>,
      <<"D", "i", "s", "p", "a", "t", "c", "h", "_", "F", "a", "i", "l", "e", "d">> }

\* "for task in tasks": the last task whose data has the key sets the value
RECURSIVE TaskData(_, _)
TaskData(tasks, acc) ==
    IF tasks = <<>> THEN acc
    ELSE LET data == Head(tasks)
         IN TaskData(Tail(tasks),
                     [acc EXCEPT !.status = IF data.status # NULL THEN Val(data.status) ELSE @,
                                 !.error = IF data.error # NULL THEN data.error ELSE @])

\* an if/elif chain that tests error/fail before complete/dispatch
ClassifyErrorFirst(acc, event) ==
    LET event_type == LowerStr(event.event)
    IN IF Contains(event_type, KwReceived)
       THEN [acc EXCEPT !.started_at = Some(event.time)]
       ELSE IF Contains(event_type, KwError) \/ Contains(event_type, KwFail)
       THEN [acc EXCEPT !.status = "failed", !.error = event.info]
       ELSE IF Contains(event_type, KwComplete) \/ Contains(event_type, KwDispatch)
       THEN [acc EXCEPT !.completed_at = Some(event.time), !.status = "completed"]
       ELSE acc

\* the body of "for event in events": if 'received' ... elif 'complete' or
\* 'dispatch' ... elif 'error' or 'fail' ...
Classify(acc, event) ==
    LET event_type == LowerStr(event.event)
    IN IF Contains(event_type, KwReceived)
       THEN [acc EXCEPT !.started_at = Some(event.time)]
       ELSE IF Contains(event_type, KwComplete) \/ Contains(event_type, KwDispatch)
       THEN [acc EXCEPT !.completed_at = Some(event.time), !.status = "completed"]
       ELSE IF Contains(event_type, KwError) \/ Contains(event_type, KwFail)
       THEN [acc EXCEPT !.status = "failed", !.error = event.info]
       ELSE acc

RECURSIVE StudyEvents(_, _)
StudyEvents(events, acc) ==
    IF events = <<>> THEN acc
    ELSE StudyEvents(Tail(events), Classify(acc, Head(events)))

\* processing_status = 'unknown', the three None, then the two loops
Processing(tasks, events) ==
    LET found == StudyEvents(events,
                    TaskData(tasks, [status |-> "unknown", started_at |-> NULL,
                                     completed_at |-> NULL, error |-> NULL]))
    IN [ status |-> found.status,
         started_at |-> found.started_at,
         completed_at |-> found.completed_at,
         duration_seconds |-> IF found.started_at # NULL /\ found.completed_at # NULL
                              THEN Some(Val(found.completed_at) - Val(found.started_at))
                              ELSE NULL,
         error |-> found.error ]

MercureStudyStatus(study_uid) ==
    /\ call' = [NoCall EXCEPT !.op = "mercure_study", !.study_instance_uid = Some(study_uid)]
    /\ pre' = NULL
    /\ resp' = [Ok EXCEPT !.processing = Some(Processing(bk_data, bk_events))]
    /\ UNCHANGED <<storeVars, now, extVars, pollVars, enrichVars, startVars, syncVars>>

(* SpecStudy: the Bookkeeper holds up to MaxEvents events of the tasks of study
   U1, in ascending time, and the data of at most one task *)

\* the events of one answer: types[i] at time i, or all at time 0
EventList(types, tie) ==
    [i \in DOMAIN types |-> [event |-> types[i], time |-> IF tie THEN 0 ELSE i,
                             info |-> Some("I" \o ToString(i))]]

TaskLists == {<<>>, <<[status |-> Some("processing"), error |-> Some("T1")]>>}

InitStudy ==
    /\ study_workflows = EmptyTable
    /\ pending_jobs = EmptyTable
    /\ now = 0
    /\ bk_series = EmptyTable
    /\ bk_tasks = [u \in Uids |-> NULL]
    /\ orthanc = EmptyTable
    /\ \E n \in 0..MaxEvents : \E types \in [1..n -> EventTypes], tie \in BOOLEAN :
          bk_events = EventList(types, tie)
    /\ bk_data \in TaskLists
    /\ pollPc = "sleep"
    /\ pollBatch = {}
    /\ pollRows = EmptyTable
    /\ pollDels = {}
    /\ pollResolved = {}
    /\ enrichPc = "sleep"
    /\ enrichBatch = {}
    /\ call = NoCall
    /\ resp = NoResp
    /\ pre = NULL
    /\ SyncIdle
    /\ Running

NextStudy == MercureStudyStatus("U1")

SpecStudy == InitStudy /\ [][NextStudy]_vars

StudyAnswered == call.op = "mercure_study" /\ resp.code = 200

LowerEvent(i) == LowerStr(bk_events[i].event)
HasReceived == {i \in DOMAIN bk_events : Contains(LowerEvent(i), KwReceived)}
HasComplete ==
    {i \in DOMAIN bk_events : Contains(LowerEvent(i), KwComplete) \/ Contains(LowerEvent(i), KwDispatch)}
HasError ==
    {i \in DOMAIN bk_events : Contains(LowerEvent(i), KwError) \/ Contains(LowerEvent(i), KwFail)}
LastOf(S) == CHOOSE i \in S : \A j \in S : j <= i
TimeOfLast(S) == IF S = {} THEN NULL ELSE Some(bk_events[LastOf(S)].time)

\* C30 as stated: started_at is the time of the last event containing
\* "received", completed_at that of the last event containing "complete" or
\* "dispatch"; when the last event containing one of complete, dispatch, error,
\* fail contains complete or dispatch only, the status is completed, when it
\* contains error or fail only, the status is failed and the error text is its
\* info.
C30_LastMatchWins ==
    StudyAnswered =>
        LET p == Val(resp.processing)
            last == LastOf(HasComplete \cup HasError)
        IN /\ p.started_at = TimeOfLast(HasReceived)
           /\ p.completed_at = TimeOfLast(HasComplete)
           /\ HasComplete \cup HasError # {} =>
                 /\ last \notin HasError => p.status = "completed"
                 /\ last \notin HasComplete => p.status = "failed" /\ p.error = bk_events[last].info

\* an event counts for the first category it matches
AsReceived == HasReceived
AsComplete == HasComplete \ HasReceived
AsError == HasError \ (HasReceived \cup HasComplete)

\* C30 amended: each event counts only for the first category it matches, in
\* the order received, complete/dispatch, error/fail.  started_at is the time
\* of the last event counted as received, completed_at that of the last event
\* counted as complete/dispatch, the status is completed or failed after the
\* last event counted as complete/dispatch or error/fail, and the error text is
\* the info of the last event counted as error/fail; where no event counts,
\* the times are null and status and error are those of the task data.
C30_LastCountedWins ==
    StudyAnswered =>
        LET p == Val(resp.processing)
            task == TaskData(bk_data, [status |-> "unknown", error |-> NULL])
        IN /\ p.started_at = TimeOfLast(AsReceived)
           /\ p.completed_at = TimeOfLast(AsComplete)
           /\ p.status = IF AsComplete \cup AsError = {} THEN task.status
                         ELSE IF LastOf(AsComplete \cup AsError) \in AsComplete THEN "completed"
                         ELSE "failed"
           /\ p.error = IF AsError = {} THEN task.error ELSE bk_events[LastOf(AsError)].info

\* three events were classified: an error, then a completion in upper case,
\* then a type that holds both "dispatch" and "received"; the answer is
\* completed at the second event's time, started at the third's, with the
\* first event's error text
C30_Witness ==
    /\ StudyAnswered
    /\ Len(bk_events) = 3
    /\ bk_events[1].event = <<"E", "R", "R", "O", "R">>
    /\ bk_events[2].event = <<"P", "R", "O", "C", "E", "S", "S", "_", "C", "O", "M", "P", "L", "E", "T", "E">>
    /\ bk_events[3].event = <<"D", "I", "S", "P", "A", "T", "C", "H", "_", "R", "E", "C", "E", "I", "V", "E", "D">>
    /\ bk_events[2].time < bk_events[3].time
    /\ Val(resp.processing).status = "completed"
    /\ Val(resp.processing).completed_at = Some(bk_events[2].time)
    /\ Val(resp.processing).started_at = Some(bk_events[3].time)
    /\ Val(resp.processing).error = Some("I1")

-----------------------------------------------------------------------------
(* Invariants of the stage columns of a row *)

\* C31: in every row, ai_results_received implies mercure_send_success = TRUE
C31_AiImpliesSendSuccess ==
    \A k \in DOMAIN study_workflows :
        study_workflows[k].ai_results_received => study_workflows[k].mercure_send_success = Some(TRUE)

\* C32: in every row and for every stage, success = TRUE implies that the
\* stage's error is null
C32_SuccessHasNoError ==
    \A k \in DOMAIN study_workflows : \A stage \in Stages :
        Success(study_workflows[k], stage) = Some(TRUE) => Error(study_workflows[k], stage) = NULL

-----------------------------------------------------------------------------
(* SpecStage: every writer of a stage's columns on study S1: the tracking calls
   with success true, false and null, jobs for mercure and lpch that the poller
   finds succeeded or failed, and sync runs *)

NextStage ==
    \/ TrackStart(Some("S1"), Some("U1"), NULL, NULL)
    \/ \E raw \in {"false", "null"} : TrackMercureSent(Some("S1"), raw, NULL)
    \/ TrackAiResults(Some("S1"))
    \/ \E raw \in {"true", "null"} : TrackDestination(Some("S1"), "lpcht", raw, NULL)
    \/ \E d \in {"mercure", "lpch"} : TrackJob(Some("J1"), Some("S1"), d)
    \/ TrackReset(Some("S1"))
    \/ PollLoad
    \/ \E job \in pollBatch, kind \in {"Success", "Failure"} : PollJob(job, Answer(kind, NULL, NULL))
    \/ PollCommit
    \/ BookkeeperReceive("X1", "U1", now, NULL, NULL)
    \/ OrthancStore("S1", "U1", NULL)
    \/ \E seen \in OrthancMaps, order \in SeriesOrders : SyncWorkflows("ok", "200", seen, order)

SpecStage == Init /\ [][NextStage]_vars

\* C40: in every row, committed or written in the poller's open transaction,
\* and for every stage, success non-null implies sent_at non-null
C40_OutcomeHasSentAt ==
    /\ \A k \in DOMAIN study_workflows : \A stage \in Stages :
          Success(study_workflows[k], stage) # NULL => SentAt(study_workflows[k], stage) # NULL
    /\ \A k \in DOMAIN pollRows : \A stage \in Stages :
          Success(pollRows[k], stage) # NULL => SentAt(pollRows[k], stage) # NULL

\* the poller has committed the failure of an lpch job for a study whose lpch
\* stage no call had written, on a row that sync had inserted
C40_Witness ==
    /\ call.op = "poll_commit"
    /\ "S1" \in DOMAIN study_workflows
    /\ study_workflows["S1"].lpch_send_success = Some(FALSE)
    /\ study_workflows["S1"].lpch_sent_at = Some(now)
    /\ study_workflows["S1"].mercure_send_success = Some(TRUE)
    /\ study_workflows["S1"].mercure_sent_at = Some(0)
    /\ study_workflows["S1"].ai_results_received_at = NULL
    /\ study_workflows["S1"].ai_results_received

C36_JobsHaveWorkflow ==
    \A j \in DOMAIN pending_jobs : pending_jobs[j].study_id \in DOMAIN study_workflows

\* C37: in every row, mercure_received_at non-null implies mercure_sent_at
\* non-null
C37_ReceivedImpliesSent ==
    \A k \in DOMAIN study_workflows :
        study_workflows[k].mercure_received_at # NULL => study_workflows[k].mercure_sent_at # NULL


\* every percentage of the answered /funnel response, in tenths of a percent
FunnelPercents ==
    LET f == Val(resp.funnel)
        routed == Entry("Routed to Destinations")
    IN {f.pipeline[i].percent : i \in DOMAIN f.pipeline}
       \cup {routed.children[i].percent : i \in DOMAIN routed.children}
       \cup {f.summary.mercure_success_rate, f.summary.routing_success_rate,
             f.summary.overall_success_rate}

\* C33: every percentage of the /funnel response (pipeline entries, children,
\* and the three rates of the summary) lies between 0 and 100
C33_PercentsWithinRange ==
    FunnelAnswered => \A p \in FunnelPercents : 0 <= p /\ p <= 1000

----------------------------------------------------------------------------
(* SpecBoot: the process right after import (init_on_startup has run and has
   either initialised the database or given up after ten attempts), serving
   requests on MaxRequests threads; the loops run once their thread exists *)

InitBoot ==
    /\ study_workflows = EmptyTable
    /\ pending_jobs = EmptyTable
    /\ now = 0
    /\ bk_series = EmptyTable
    /\ bk_tasks = [u \in Uids |-> NULL]
    /\ bk_events = <<>>
    /\ bk_data = <<>>
    /\ orthanc = EmptyTable
    /\ pollPc = "sleep"
    /\ pollBatch = {}
    /\ pollRows = EmptyTable
    /\ pollDels = {}
    /\ pollResolved = {}
    /\ enrichPc = "sleep"
    /\ enrichBatch = {}
    /\ call = NoCall
    /\ resp = NoResp
    /\ pre = NULL
    /\ SyncIdle
    /\ initialized \in BOOLEAN
    /\ poller_started = FALSE
    /\ enricher_started = FALSE
    /\ poller_threads = 0
    /\ enricher_threads = 0
    /\ reqPc = [r \in Requests |-> "idle"]

NextBoot ==
    \/ \E r \in Requests : RequestArrives(r)
    \/ \E r \in Requests : EnsureInitialized(r)
    \/ \E r \in Requests : EnsurePoller(r)
    \/ \E r \in Requests : PollerThreadStart(r)
    \/ \E r \in Requests : PollerStarted(r)
    \/ \E r \in Requests : EnsureEnricher(r)
    \/ \E r \in Requests : EnricherThreadStart(r)
    \/ \E r \in Requests : EnricherStarted(r)
    \/ \E r \in Requests : RequestDone(r)
    \/ PollLoad
    \/ PollCommit
    \/ \E batch \in EnrichBatches : EnrichSelect(batch)
    \/ EnrichDone

SpecBoot == InitBoot /\ [][NextBoot]_vars

\* C12: after any number of requests, also first requests handled concurrently by
\* several threads, at most one poller thread and at most one enricher thread exist.
C12_StartedAtMostOnce == poller_threads <= 1 /\ enricher_threads <= 1

====
